---- MODULE Spec2Model ----
(***************************************************************************)
(* A model of the colour core of naqsh: packed ARGB colours (Color,        *)
(* ColorInt), the colour utilities (compositing, luminance, contrast, the  *)
(* minimum-alpha search, HSL), the ColorInt operators, the colour-cut      *)
(* quantizer (its constructor and quantize_pixels with its boxes), the     *)
(* default filter, Swatch, TargetBuilder and the Palette constructor, and   *)
(* of two containers: SparseBooleanArray and Image with its rows.          *)
(*                                                                         *)
(* An i32 is modelled as the signed integer it denotes.  On such values    *)
(*   x >> k        is  x \div 2^k   (arithmetic shift, floor division),    *)
(*   x & (2^k - 1) is  x % 2^k      (TLA+ % is non-negative),              *)
(*   x | y         is  x + y  when x and y have no set bit in common.      *)
(* A u8 is an integer in 0..255; u8 addition and subtraction either abort  *)
(* the call (overflow checks on, as in a debug build) or wrap modulo 256   *)
(* (overflow checks off, as in a release build).                           *)
(***************************************************************************)
EXTENDS Integers, Sequences, FiniteSets, TLC

VARIABLES
    \* ---- Color / ColorInt packing ----
    c_pc,          \* "input" | "packed" | "unpacked"
    c_args,        \* <<alpha, red, green, blue>> given to Color::argb
    c_packed,      \* the i32 returned by Color::argb
    c_color,       \* <<alpha, red, green, blue>> read back with Color::*
    c_colorint     \* <<alpha, red, green, blue>> read back with ColorInt::*

colorVars == <<c_pc, c_args, c_packed, c_color, c_colorint>>

VARIABLES
    \* ---- ColorUtils::calculate_contrast / calculate_minimum_alpha ----
    overflow_checks,   \* TRUE: u8 overflow aborts the call; FALSE: it wraps
    foreground,        \* the foreground colour of the calls of this run
    background,        \* the background colour of the calls of this run
    a_pc,              \* "idle" | "loop" | "returned" | "panicked"
    min_contrast_ratio,\* the ratio of the current call, in tenths
    min_alpha,         \* u8
    max_alpha,         \* u8
    num_iterations,    \* iterations of the search loop completed
    a_ret,             \* the value returned, when a_pc = "returned"
    a_cause,           \* why the call aborted, when a_pc = "panicked"
    a_returns,         \* the <<ratio, alpha>> pairs returned so far in this run
    k_out              \* outcome of the last direct calculate_contrast call

alphaVars == <<overflow_checks, foreground, background, a_pc, min_contrast_ratio,
               min_alpha, max_alpha, num_iterations, a_ret, a_cause, a_returns,
               k_out>>

VARIABLES
    \* ---- ColorCutQuantizer::new ----
    q_pc,                  \* "input" | "histogram" | "counted" | "collected"
                           \*   | "quantize_pixels" | "split_boxes"
                           \*   | "returned" | "panicked"
    pixels,                \* the pixels given to new
    max_colors,            \* the max_colors given to new
    m_filters,             \* ccq.m_filters: the filters given to new
    hist,                  \* the local histogram; colours absent from its
                           \*   domain have population 0
    distinct_color_count,  \* local of new
    colors,                \* the local array of distinct colours
    m_colors,              \* ccq.m_colors
    m_histogram,           \* ccq.m_histogram
    m_quantized_colors,    \* ccq.m_quantized_colors
    q_cause                \* why new aborted, when q_pc = "panicked"

quantVars == <<q_pc, pixels, max_colors, m_filters, hist, distinct_color_count,
               colors, m_colors, m_histogram, m_quantized_colors, q_cause>>

VARIABLES
    \* ---- Palette::new ----
    p_pc,                  \* "input" | "built"
    p_swatches,            \* the swatches given to new
    p_targets,             \* the targets given to new
    m_swatches,            \* the fields of the Palette
    m_targets,
    m_selected_swatches,   \* the map as its set of <<target, swatch>> entries
    m_used_colors,
    m_dominant_swatch

paletteVars == <<p_pc, p_swatches, p_targets, m_swatches, m_targets,
                 m_selected_swatches, m_used_colors, m_dominant_swatch>>

VARIABLES
    \* ---- a Swatch and the calls of its accessors ----
    s_pc,                  \* "ready" | "panicked"
    swatch,                \* the fields of the Swatch
    s_call,                \* the accessor called last, "none" before any
    s_ret,                 \* what it returned, as a sequence of one value
    s_cause,               \* why the call aborted, when s_pc = "panicked"
    s_calls,               \* the number of accessor calls made
    s_first,               \* per accessor, what its first call returned
    s_hsl_computations,    \* how often rgb_to_hsl ran for this swatch
    s_text_computations,   \* how often the text colours were generated
    s_later_write          \* a call after the first access of a cache
                           \*   changed a field of the swatch

swatchVars == <<s_pc, swatch, s_call, s_ret, s_cause, s_calls, s_first,
                s_hsl_computations, s_text_computations, s_later_write>>

VARIABLES
    \* ---- TargetBuilder ----
    tb_pc,                 \* "building" | "built"
    m_target,              \* TargetBuilder.m_target
    tb_calls,              \* the number of setter calls made
    tb_built               \* the Target returned by build

targetVars == <<tb_pc, m_target, tb_calls, tb_built>>

VARIABLES
    \* ---- ColorCutQuantizer::quantize_pixels ----
    queue,                 \* pq, the BinaryHeap of boxes, in no order
    split_log              \* per call of split_box: the box popped for it
                           \*   and the boxes left in the queue

boxVars == <<queue, split_log>>

VARIABLES
    \* ---- one call of a function without state ----
    f_pc,                  \* "input" | "returned" | "panicked"
    f_call,                \* the function called and its arguments
    f_ret,                 \* what it returned, or the receiver after an
                           \*   assigning operator
    f_cause                \* why the call aborted, when f_pc = "panicked"

callVars == <<f_pc, f_call, f_ret, f_cause>>

VARIABLES
    \* ---- a SparseBooleanArray and the calls made on it ----
    sba,                   \* the fields of the SparseBooleanArray
    sba_log                \* the calls of put, append, delete and clear made
                           \*   on it, in their order

sparseVars == <<sba, sba_log>>

vars == <<colorVars, alphaVars, quantVars, paletteVars, swatchVars, targetVars,
          boxVars, callVars, sparseVars>>

\* What the actions of one component leave alone: the other components.
notColor == <<alphaVars, quantVars, paletteVars, swatchVars, targetVars, boxVars, callVars,
             sparseVars>>
notAlpha == <<colorVars, quantVars, paletteVars, swatchVars, targetVars, boxVars, callVars,
             sparseVars>>
notQuant == <<colorVars, alphaVars, paletteVars, swatchVars, targetVars, boxVars, callVars,
             sparseVars>>
notPalette == <<colorVars, alphaVars, quantVars, swatchVars, targetVars, boxVars, callVars,
             sparseVars>>
notSwatch == <<colorVars, alphaVars, quantVars, paletteVars, targetVars, boxVars, callVars,
             sparseVars>>
notTarget == <<colorVars, alphaVars, quantVars, paletteVars, swatchVars, boxVars, callVars,
             sparseVars>>
notBoxes == <<colorVars, alphaVars, paletteVars, swatchVars, targetVars, callVars,
              sparseVars>>
notCall == <<colorVars, alphaVars, quantVars, paletteVars, swatchVars, targetVars,
             boxVars, sparseVars>>
notSparse == <<colorVars, alphaVars, quantVars, paletteVars, swatchVars, targetVars,
               boxVars, callVars>>

\* ------------------------------------------------------------------------
\* Bounds and input samples
\* ------------------------------------------------------------------------

\* Byte values the packing inputs are drawn from: both ends, both sides of
\* the sign bit of the top byte, and values that differ in every octet.
ByteSamples == {0, 1, 2, 127, 128, 254, 255}

\* Contrast ratios the calls are made with, in tenths (1.0, 3.0, 4.5, 7.0,
\* 15.0 and 21.1); 3.0 and 4.5 are the ratios Swatch asks for.
RatioSamples == {10, 30, 45, 70, 150, 211}

\* The greatest width and height of an Image.
MaxImageSide == 2

\* The most boxes pushed on a priority queue.
MaxHeapSize == 3

\* The most calls made on one SparseBooleanArray.
MaxSparseCalls == 3

\* The longest pixel list given to the quantizer.
MaxPixels == 4

\* The largest max_colors given to the quantizer.
MaxColorsBound == 4

\* The longest swatch list given to Palette::new.
MaxSwatches == 3

\* The largest population of a swatch given to Palette::new.
MaxPopulation == 3

\* The most colours in the array given to quantize_pixels.
MaxBoxColors == 3

\* The most accessor calls made on one Swatch.
MaxAccesses == 3

\* The most setter calls made on one TargetBuilder.
MaxSetterCalls == 3

\* ------------------------------------------------------------------------
\* Fixed-width helpers
\* ------------------------------------------------------------------------

Pow2_8  == 2^8
Pow2_16 == 2^16
Pow2_24 == 2^24

\* x + y on u8: the wrapped sum, and whether the exact sum left 0..255.
U8Add(x, y) == [v |-> (x + y) % 256, overflow |-> x + y > 255]

\* x - y on u8: the wrapped difference, and whether the exact one left 0..255.
U8Sub(x, y) == [v |-> (x - y) % 256, overflow |-> x - y < 0]

\* i32::MIN and i32::MAX
I32_MIN == -(2^30) - 2^30
I32_MAX == -(I32_MIN + 1)

Max(x, y) == IF x >= y THEN x ELSE y
Min(x, y) == IF x <= y THEN x ELSE y

\* (x as i32) << 24 for a u8 x: the top octet, bit 31 being the sign.
Shl24(x) == IF x >= 128 THEN (x - 256) * Pow2_24 ELSE x * Pow2_24

\* ------------------------------------------------------------------------
\* Color (src/src/graphics/color.rs)
\* ------------------------------------------------------------------------

Color_BLACK == Shl24(255)
Color_WHITE == -1

Color_alpha(color) == (color \div Pow2_24) % 256

Color_red(color) == (color \div Pow2_16) % 256

Color_green(color) == (color \div Pow2_8) % 256

\* `(color >> 8 & 0xFF) as u8`: >> binds tighter than &, so the shift by 8
\* applies here as well.
Color_blue(color) == (color \div Pow2_8) % 256

Color_rgb(red, green, blue) == Shl24(255) + red * Pow2_16 + green * Pow2_8 + blue

Color_argb(alpha, red, green, blue) ==
    Shl24(alpha) + red * Pow2_16 + green * Pow2_8 + blue

\* Colours used as inputs.
RED == Color_rgb(255, 0, 0)
GREEN == Color_rgb(0, 255, 0)
BLUE == Color_rgb(0, 0, 255)
NEAR_WHITE == Color_rgb(250, 252, 251)

\* ------------------------------------------------------------------------
\* ColorInt (src/naqsh-rs/src/graphics/color_int.rs)
\* ------------------------------------------------------------------------

ColorInt_alpha(self) == (self \div Pow2_24) % 256

ColorInt_red(self) == (self \div Pow2_16) % 256

ColorInt_green(self) == (self \div Pow2_8) % 256

ColorInt_blue(self) == self % 256

\* ------------------------------------------------------------------------
\* ColorUtils (src/naqsh-rs/src/graphics/color_utils.rs)
\*
\* Luminance is a fixed-point number with six decimals.  SrgbLinear[c + 1]
\* is the gamma expansion of channel value c (c / 255 / 12.92 below 0.04045,
\* ((c / 255 + 0.055) / 1.055) ^ 2.4 otherwise) rounded to five decimals.  A
\* contrast ratio is kept as the pair <<lighter, darker>> of luminances + 0.05
\* and compared with a ratio by cross-multiplication.
\* ------------------------------------------------------------------------

SrgbLinear == <<
    0, 30, 61, 91, 121, 152, 182, 212,
    243, 273, 304, 335, 368, 402, 439, 478,
    518, 561, 605, 651, 700, 750, 802, 857,
    913, 972, 1033, 1096, 1161, 1229, 1298, 1370,
    1444, 1521, 1600, 1681, 1764, 1850, 1938, 2029,
    2122, 2217, 2315, 2416, 2519, 2624, 2732, 2843,
    2956, 3071, 3190, 3310, 3434, 3560, 3689, 3820,
    3955, 4092, 4231, 4374, 4519, 4667, 4817, 4971,
    5127, 5286, 5448, 5613, 5781, 5951, 6125, 6301,
    6480, 6663, 6848, 7036, 7227, 7421, 7619, 7819,
    8022, 8228, 8438, 8650, 8866, 9084, 9306, 9531,
    9759, 9990, 10224, 10462, 10702, 10946, 11193, 11444,
    11697, 11954, 12214, 12477, 12744, 13014, 13287, 13563,
    13843, 14126, 14413, 14703, 14996, 15293, 15593, 15896,
    16203, 16513, 16827, 17144, 17465, 17789, 18116, 18447,
    18782, 19120, 19462, 19807, 20156, 20508, 20864, 21223,
    21586, 21953, 22323, 22697, 23074, 23455, 23840, 24228,
    24620, 25016, 25415, 25818, 26225, 26636, 27050, 27468,
    27889, 28315, 28744, 29177, 29614, 30054, 30499, 30947,
    31399, 31855, 32314, 32778, 33245, 33716, 34191, 34670,
    35153, 35640, 36131, 36625, 37124, 37626, 38133, 38643,
    39157, 39676, 40198, 40724, 41254, 41789, 42327, 42869,
    43415, 43966, 44520, 45079, 45641, 46208, 46778, 47353,
    47932, 48515, 49102, 49693, 50289, 50888, 51492, 52100,
    52712, 53328, 53948, 54572, 55201, 55834, 56471, 57112,
    57758, 58408, 59062, 59720, 60383, 61050, 61721, 62396,
    63076, 63760, 64448, 65141, 65837, 66539, 67244, 67954,
    68669, 69387, 70110, 70838, 71569, 72306, 73046, 73791,
    74540, 75294, 76052, 76815, 77582, 78354, 79130, 79910,
    80695, 81485, 82279, 83077, 83880, 84687, 85499, 86316,
    87137, 87962, 88792, 89627, 90466, 91310, 92158, 93011,
    93869, 94731, 95597, 96469, 97345, 98225, 99110, 100000 >>

MIN_ALPHA_SEARCH_MAX_ITERATIONS == 10
MIN_ALPHA_SEARCH_PRECISION == 1

\* Y of rgb_to_xyz is 100 times this value; calculate_luminance divides by 100.
rgb_to_xyz_Y(r, g, b) ==
    (2126 * SrgbLinear[r + 1] + 7152 * SrgbLinear[g + 1] + 722 * SrgbLinear[b + 1])
        \div 1000

color_to_xyz_Y(color) ==
    rgb_to_xyz_Y(Color_red(color), Color_green(color), Color_blue(color))

\* calculate_luminance without the division of Y by 100.
calculate_luminance_of_Y(color) == color_to_xyz_Y(color) * 100

calculate_luminance(color) == color_to_xyz_Y(color)

set_alpha_component(color, alpha) == (color % Pow2_24) + Shl24(alpha)

composite_alpha(foreground_alpha, background_alpha) ==
    255 - (((255 - background_alpha) * (255 - foreground_alpha)) \div 255)

composite_component(fg_c, fg_a, bg_c, bg_a, a) ==
    IF a = 0 THEN 0
    ELSE (((255 * fg_c * fg_a) + (bg_c * bg_a * (255 - fg_a))) \div (a * 255)) % 256

composite_colors(fg, bg) ==
    LET bg_alpha == Color_alpha(bg)
        fg_alpha == Color_alpha(fg)
        a == composite_alpha(fg_alpha, bg_alpha)
        r == composite_component(Color_red(fg), fg_alpha, Color_red(bg), bg_alpha, a)
        g == composite_component(Color_green(fg), fg_alpha, Color_green(bg), bg_alpha, a)
        b == composite_component(Color_blue(fg), fg_alpha, Color_blue(bg), bg_alpha, a)
    IN  Color_argb(a, r, g, b)

\* calculate_contrast with the opacity test applied to the foreground.
calculate_contrast_fg_test(fg, bg) ==
    IF Color_alpha(fg) # 255
    THEN [panic |-> TRUE, hi |-> 0, lo |-> 1]
    ELSE LET luminance1 == calculate_luminance(fg) + 50000
             luminance2 == calculate_luminance(bg) + 50000
         IN  [panic |-> FALSE,
              hi |-> Max(luminance1, luminance2),
              lo |-> Min(luminance1, luminance2)]

\* The outcome of calculate_contrast: a panic when the background is not
\* opaque, otherwise the ratio hi / lo.
calculate_contrast(fg, bg) ==
    IF Color_alpha(bg) # 255
    THEN [panic |-> TRUE, hi |-> 0, lo |-> 1]
    ELSE LET fg2 == IF Color_alpha(fg) < 255 THEN composite_colors(fg, bg) ELSE fg
             luminance1 == calculate_luminance(fg2) + 50000
             luminance2 == calculate_luminance(bg) + 50000
         IN  [panic |-> FALSE,
              hi |-> Max(luminance1, luminance2),
              lo |-> Min(luminance1, luminance2)]

\* test_ratio < min_contrast_ratio, the ratio being given in tenths.
RatioBelow(test_ratio, ratio10) == test_ratio.hi * 10 < ratio10 * test_ratio.lo

\* ------------------------------------------------------------------------
\* ColorUtils::rgb_to_hsl
\*
\* A float is modelled as the rational it stands for, a pair <<n, d>> with
\* d > 0.  With R = r, G = g, B = b the channels as integers, rf = R / 255
\* and so on, so that ratios of channel differences need no scaling.
\* ------------------------------------------------------------------------

Abs(x) == IF x < 0 THEN -x ELSE x

\* a % m on floats of the same denominator: the remainder has the sign of a.
TruncRem(a, m) == IF a < 0 THEN -((-a) % m) ELSE a % m

RatLe(x, y) == x[1] * y[2] <= y[1] * x[2]
RatLt(x, y) == x[1] * y[2] < y[1] * x[2]

constrain(amount, low, high) ==
    IF RatLt(amount, low) THEN low
    ELSE IF RatLe(amount, high) THEN amount ELSE high

\* rgb_to_hsl with the lightness max + min, not halved.
rgb_to_hsl_unhalved(r, g, b) ==
    LET max == Max(r, Max(g, b))
        min == Min(r, Max(g, b))
        delta_max_min == max - min
        lsum == max + min                    \* l = lsum / 510
        \* h before the scaling by 60, as a numerator over delta_max_min
        h6 == IF max = r THEN TruncRem(g - b, 6 * delta_max_min)
              ELSE IF max = g THEN (b - r) + 2 * delta_max_min
              ELSE (r - g) + 4 * delta_max_min
        hn == TruncRem(h6 * 60, 360 * delta_max_min)
        h == IF max = min THEN <<0, 1>>
             ELSE IF hn < 0 THEN <<hn + 360 * delta_max_min, delta_max_min>>
             ELSE <<hn, delta_max_min>>
        s == IF max = min THEN <<0, 1>>
             ELSE <<delta_max_min, 255 - Abs(lsum - 255)>>
        l == <<lsum, 255>>
    IN  << constrain(h, <<0, 1>>, <<360, 1>>),
           constrain(s, <<0, 1>>, <<1, 1>>),
           constrain(l, <<0, 1>>, <<1, 1>>) >>

rgb_to_hsl(r, g, b) ==
    LET max == Max(r, Max(g, b))
        min == Min(r, Max(g, b))
        delta_max_min == max - min
        lsum == max + min                    \* l = lsum / 510
        \* h before the scaling by 60, as a numerator over delta_max_min
        h6 == IF max = r THEN TruncRem(g - b, 6 * delta_max_min)
              ELSE IF max = g THEN (b - r) + 2 * delta_max_min
              ELSE (r - g) + 4 * delta_max_min
        hn == TruncRem(h6 * 60, 360 * delta_max_min)
        h == IF max = min THEN <<0, 1>>
             ELSE IF hn < 0 THEN <<hn + 360 * delta_max_min, delta_max_min>>
             ELSE <<hn, delta_max_min>>
        s == IF max = min THEN <<0, 1>>
             ELSE <<delta_max_min, 255 - Abs(lsum - 255)>>
        l == <<lsum, 510>>
    IN  << constrain(h, <<0, 1>>, <<360, 1>>),
           constrain(s, <<0, 1>>, <<1, 1>>),
           constrain(l, <<0, 1>>, <<1, 1>>) >>

color_to_hsl(color) ==
    rgb_to_hsl(Color_red(color), Color_green(color), Color_blue(color))

\* ------------------------------------------------------------------------
\* Swatch and Filter (src/src/graphics/palette.rs)
\* ------------------------------------------------------------------------

Swatch_new(color, population) ==
    [ m_red |-> Color_red(color),
      m_green |-> Color_green(color),
      m_blue |-> Color_blue(color),
      m_rgb |-> color,
      m_population |-> population,
      m_generated_text_colors |-> FALSE,
      m_title_text_color |-> 0,
      m_body_text_color |-> 0,
      m_hsl |-> << <<0, 1>>, <<0, 1>>, <<0, 1>> >> ]

\* The swatch after get_hsl; its m_hsl is what the call returns.
Swatch_get_hsl(s) == [s EXCEPT !.m_hsl = rgb_to_hsl(s.m_red, s.m_green, s.m_blue)]

Swatch_default ==
    [ m_red |-> 0, m_green |-> 0, m_blue |-> 0, m_rgb |-> 0, m_population |-> 0,
      m_generated_text_colors |-> FALSE,
      m_title_text_color |-> 0,
      m_body_text_color |-> 0,
      m_hsl |-> << <<0, 1>>, <<0, 1>>, <<0, 1>> >> ]

DefaultFilter_is_black(hsl_color) == RatLe(hsl_color[3], <<5, 100>>)

DefaultFilter_is_white(hsl_color) == RatLe(hsl_color[3], <<95, 100>>)

DefaultFilter_is_near_red_iline(hsl_color) ==
    /\ RatLe(<<10, 1>>, hsl_color[1])
    /\ RatLe(hsl_color[1], <<37, 1>>)
    /\ RatLe(hsl_color[2], <<82, 100>>)

DefaultFilter_is_allowed(rgb, hsl) ==
    /\ ~DefaultFilter_is_white(hsl)
    /\ ~DefaultFilter_is_black(hsl)
    /\ ~DefaultFilter_is_near_red_iline(hsl)

\* A filter supplied by a client of the Filter trait: it allows the colours
\* that have some red in them.
ClientFilter_is_allowed(rgb, hsl) == Color_red(rgb) > 0

\* Another filter of a client: it allows every colour but those of one red
\* level.
BandFilter_is_allowed(rgb, hsl) == Color_red(rgb) # 128

\* Filter::is_allowed, dispatched on the implementation.
Filter_is_allowed(filter, rgb, hsl) ==
    IF filter = "DefaultFilter" THEN DefaultFilter_is_allowed(rgb, hsl)
    ELSE IF filter = "BandFilter" THEN BandFilter_is_allowed(rgb, hsl)
    ELSE ClientFilter_is_allowed(rgb, hsl)

\* ------------------------------------------------------------------------
\* ColorCutQuantizer (src/src/graphics/color_cut_quantizer.rs)
\* ------------------------------------------------------------------------

QUANTIZE_WORD_WIDTH == 5
QUANTIZE_WORD_MASK == 2^QUANTIZE_WORD_WIDTH - 1

\* modify_word_width that fills the low bits of a widened value with its
\* high bits.
modify_word_width_replicating(value, current_width, target_width) ==
    LET new_value == IF target_width > current_width
                     THEN value * 2^(target_width - current_width)
                              + value \div 2^(2 * current_width - target_width)
                     ELSE value \div 2^(current_width - target_width)
    IN  new_value % 2^target_width

modify_word_width(value, current_width, target_width) ==
    LET new_value == IF target_width > current_width
                     THEN value * 2^(target_width - current_width)
                     ELSE value \div 2^(current_width - target_width)
    IN  new_value % 2^target_width

quantized_red(color) ==
    (color \div 2^(QUANTIZE_WORD_WIDTH + QUANTIZE_WORD_WIDTH)) % (QUANTIZE_WORD_MASK + 1)

quantized_green(color) ==
    (color \div 2^QUANTIZE_WORD_WIDTH) % (QUANTIZE_WORD_MASK + 1)

\* `color >> & Self::QUANTIZE_WORD_MASK`: the & borrows the mask, and the
\* colour is shifted right by its value, 31 (here by 30 and then by 1, as
\* 2^31 is no i32).
quantized_blue(color) == (color \div 2^(QUANTIZE_WORD_MASK - 1)) \div 2

quantize_from_rgb888(color) ==
    LET r == modify_word_width(Color_red(color), 8, QUANTIZE_WORD_WIDTH)
        g == modify_word_width(Color_green(color), 8, QUANTIZE_WORD_WIDTH)
        b == modify_word_width(Color_blue(color), 8, QUANTIZE_WORD_WIDTH)
    IN  r * 2^(QUANTIZE_WORD_WIDTH + QUANTIZE_WORD_WIDTH) + g * 2^QUANTIZE_WORD_WIDTH + b

approximate_to_rgb888_1(r, g, b) ==
    Color_rgb(modify_word_width(r, QUANTIZE_WORD_WIDTH, 8) % 256,
              modify_word_width(g, QUANTIZE_WORD_WIDTH, 8) % 256,
              modify_word_width(b, QUANTIZE_WORD_WIDTH, 8) % 256)

approximate_to_rgb888_2(color) ==
    approximate_to_rgb888_1(quantized_red(color), quantized_green(color),
                            quantized_blue(color))

RECURSIVE should_ignore_from(_, _, _, _)
\* The loop of should_ignore_color_3 from filter i on (i counts from 1).
should_ignore_from(filters, i, rgb, hsl) ==
    IF i > Len(filters) THEN FALSE
    ELSE IF ~Filter_is_allowed(filters[i], rgb, hsl) THEN TRUE
    ELSE should_ignore_from(filters, i + 1, rgb, hsl)

should_ignore_color_3(filters, rgb, hsl) ==
    IF Len(filters) > 0 THEN should_ignore_from(filters, 1, rgb, hsl) ELSE FALSE

\* should_ignore_color_1 that ignores no colour.
should_ignore_color_1_never(filters, color565) == FALSE

should_ignore_color_1(filters, color565) ==
    LET rgb == approximate_to_rgb888_2(color565)
    IN  should_ignore_color_3(filters, rgb, color_to_hsl(rgb))

\* hist[color], for any index of the histogram.
HistAt(h, color) == IF color \in DOMAIN h THEN h[color] ELSE 0

\* The indices of the histogram that hold a population, in ascending order.
RECURSIVE Ascending(_)
Ascending(S) ==
    IF S = {} THEN <<>>
    ELSE LET least == CHOOSE x \in S : \A y \in S : x <= y
         IN  <<least>> \o Ascending(S \ {least})

Populated(h) == Ascending({c \in DOMAIN h : h[c] > 0})

RECURSIVE CountPixels(_, _, _)
\* The histogram after the pixels from index i on have been counted.
CountPixels(px, i, h) ==
    IF i > Len(px) THEN h
    ELSE LET quantized_color == quantize_from_rgb888(px[i])
         IN  CountPixels(px, i + 1,
                 IF quantized_color \in DOMAIN h
                 THEN [h EXCEPT ![quantized_color] = @ + 1]
                 ELSE [c \in DOMAIN h \cup {quantized_color} |->
                          IF c = quantized_color THEN 1 ELSE h[c]])

EmptyHistogram == [c \in {} |-> 0]

RECURSIVE CollectFrom(_, _, _, _)
\* The second pass over the histogram, from the k-th populated colour on:
\* the array written so far, or a panic when an index is out of bounds.
\* The array is indexed from 0; element i of it is a[i + 1].
CollectFrom(populated, k, distinct_color_index, a) ==
    IF k > Len(populated) THEN [panic |-> FALSE, colors |-> a]
    ELSE LET index == distinct_color_index + 1
         IN  IF index >= Len(a)
             THEN [panic |-> TRUE, colors |-> a]
             ELSE CollectFrom(populated, k + 1, index,
                              [a EXCEPT ![index + 1] = populated[k]])

RECURSIVE SwatchesOf(_, _, _)
\* The swatches pushed for the colours from index i on.
SwatchesOf(cs, i, h) ==
    IF i > Len(cs) THEN <<>>
    ELSE <<Swatch_new(approximate_to_rgb888_2(cs[i]), HistAt(h, cs[i]))>>
             \o SwatchesOf(cs, i + 1, h)

\* ------------------------------------------------------------------------
\* Calls of calculate_contrast and calculate_minimum_alpha
\* ------------------------------------------------------------------------

WHITE_HALF == Color_argb(128, 255, 255, 255)

FgSamples == {Color_WHITE, Color_BLACK, WHITE_HALF}

OpaqueBgSamples ==
    { Color_BLACK, Color_WHITE,
      Color_rgb(32, 32, 32), Color_rgb(128, 128, 128),
      Color_rgb(63, 81, 181), Color_rgb(255, 0, 0) }

TranslucentBgSamples ==
    { 0, Color_argb(128, 128, 128, 128), Color_argb(254, 255, 255, 255) }

BgSamples == OpaqueBgSamples \cup TranslucentBgSamples

AlphaInit ==
    /\ overflow_checks \in BOOLEAN
    /\ foreground \in FgSamples
    /\ background \in BgSamples
    /\ a_pc = "idle"
    /\ min_contrast_ratio = 10
    /\ min_alpha = 0
    /\ max_alpha = 255
    /\ num_iterations = 0
    /\ a_ret = 0
    /\ a_cause = "none"
    /\ a_returns = {}
    /\ k_out = [status |-> "none", hi |-> 0, lo |-> 1]

\* A direct call calculate_contrast(foreground, background).
ContrastCall ==
    /\ a_pc = "idle"
    /\ LET c == calculate_contrast(foreground, background)
       IN  k_out' = IF c.panic
                    THEN [status |-> "panicked", hi |-> 0, lo |-> 1]
                    ELSE [status |-> "value", hi |-> c.hi, lo |-> c.lo]
    /\ UNCHANGED <<overflow_checks, foreground, background, a_pc,
                   min_contrast_ratio, min_alpha, max_alpha, num_iterations,
                   a_ret, a_cause, a_returns>>
    /\ UNCHANGED notAlpha

Panic(cause) ==
    /\ a_pc' = "panicked"
    /\ a_cause' = cause

Return(value) ==
    /\ a_pc' = "returned"
    /\ a_ret' = value
    /\ a_returns' = a_returns \cup {<<min_contrast_ratio', value>>}

\* calculate_minimum_alpha up to the search loop: the precondition, and the
\* test of the fully opaque foreground.
MinimumAlphaCall ==
    /\ a_pc = "idle"
    /\ num_iterations' = 0
    /\ min_alpha' = 0
    /\ max_alpha' = 255
    /\ \E ratio \in RatioSamples :
        /\ min_contrast_ratio' = ratio
        /\ IF Color_alpha(background) # 255
           THEN /\ Panic("background not opaque")
                /\ UNCHANGED <<a_ret, a_returns>>
           ELSE LET test_foreground == set_alpha_component(foreground, 255)
                    test_ratio == calculate_contrast(test_foreground, background)
                IN  IF test_ratio.panic
                    THEN /\ Panic("background not opaque")
                         /\ UNCHANGED <<a_ret, a_returns>>
                    ELSE IF RatioBelow(test_ratio, ratio)
                    THEN /\ Return(-1)
                         /\ UNCHANGED a_cause
                    ELSE /\ a_pc' = "loop"
                         /\ UNCHANGED <<a_ret, a_cause, a_returns>>
    /\ UNCHANGED <<overflow_checks, foreground, background, k_out>>
    /\ UNCHANGED notAlpha

\* The search body with the two ends of the window exchanged: a failing
\* test_alpha becomes max_alpha, a passing one min_alpha.
SearchBody_ends_swapped ==
    LET sum == U8Add(min_alpha, max_alpha)
    IN  IF sum.overflow /\ overflow_checks
        THEN /\ Panic("attempt to add with overflow")
             /\ UNCHANGED <<min_alpha, max_alpha, num_iterations, a_ret, a_returns>>
        ELSE LET test_alpha == sum.v \div 2
                 test_foreground == set_alpha_component(foreground, test_alpha)
                 test_ratio == calculate_contrast(test_foreground, background)
             IN  /\ IF RatioBelow(test_ratio, min_contrast_ratio)
                    THEN max_alpha' = test_alpha /\ UNCHANGED min_alpha
                    ELSE min_alpha' = test_alpha /\ UNCHANGED max_alpha
                 /\ num_iterations' = num_iterations + 1
                 /\ UNCHANGED <<a_pc, a_ret, a_cause, a_returns>>

\* The body of the search loop, once its condition has held.
SearchBody ==
    LET sum == U8Add(min_alpha, max_alpha)
    IN  IF sum.overflow /\ overflow_checks
        THEN /\ Panic("attempt to add with overflow")
             /\ UNCHANGED <<min_alpha, max_alpha, num_iterations, a_ret, a_returns>>
        ELSE LET test_alpha == sum.v \div 2
                 test_foreground == set_alpha_component(foreground, test_alpha)
                 test_ratio == calculate_contrast(test_foreground, background)
             IN  IF test_ratio.panic
                 THEN /\ Panic("background not opaque")
                      /\ UNCHANGED <<min_alpha, max_alpha, num_iterations,
                                     a_ret, a_returns>>
                 ELSE /\ IF RatioBelow(test_ratio, min_contrast_ratio)
                         THEN min_alpha' = test_alpha /\ UNCHANGED max_alpha
                         ELSE max_alpha' = test_alpha /\ UNCHANGED min_alpha
                      /\ num_iterations' = num_iterations + 1
                      /\ UNCHANGED <<a_pc, a_ret, a_cause, a_returns>>

\* One evaluation of the loop condition, then either one iteration or the
\* return of max_alpha.
MinimumAlphaLoop ==
    /\ a_pc = "loop"
    /\ UNCHANGED <<overflow_checks, foreground, background, min_contrast_ratio, k_out>>
    /\ UNCHANGED notAlpha
    /\ IF num_iterations <= MIN_ALPHA_SEARCH_MAX_ITERATIONS
       THEN LET window == U8Sub(max_alpha, min_alpha)
            IN  IF window.overflow /\ overflow_checks
                THEN /\ Panic("attempt to subtract with overflow")
                     /\ UNCHANGED <<min_alpha, max_alpha, num_iterations,
                                    a_ret, a_returns>>
                ELSE IF window.v > MIN_ALPHA_SEARCH_PRECISION
                THEN SearchBody
                ELSE /\ Return(max_alpha)
                     /\ UNCHANGED <<min_alpha, max_alpha, num_iterations, a_cause>>
       ELSE /\ Return(max_alpha)
            /\ UNCHANGED <<min_alpha, max_alpha, num_iterations, a_cause>>

\* The caller takes the outcome; the next call may start.
MinimumAlphaDone ==
    /\ a_pc \in {"returned", "panicked"}
    /\ a_pc' = "idle"
    /\ a_cause' = "none"
    /\ UNCHANGED <<overflow_checks, foreground, background, min_contrast_ratio,
                   min_alpha, max_alpha, num_iterations, a_ret, a_returns, k_out>>
    /\ UNCHANGED notAlpha

AlphaNext == ContrastCall \/ MinimumAlphaCall \/ MinimumAlphaLoop \/ MinimumAlphaDone

\* ------------------------------------------------------------------------
\* calculate_minimum_alpha as a function of its arguments and of the build
\* ------------------------------------------------------------------------

RECURSIVE minimum_alpha_search(_, _, _, _, _, _, _)
\* The search loop from the state (min, max, n) on: the alpha returned, or
\* the panic of a u8 overflow in a build that checks for it.
minimum_alpha_search(fg, bg, ratio10, checks, min, max, n) ==
    LET window == U8Sub(max, min)
        sum == U8Add(min, max)
        test_alpha == sum.v \div 2
        test_ratio == calculate_contrast(set_alpha_component(fg, test_alpha), bg)
    IN  IF ~(n <= MIN_ALPHA_SEARCH_MAX_ITERATIONS)
        THEN [panic |-> FALSE, cause |-> "none", value |-> max]
        ELSE IF window.overflow /\ checks
        THEN [panic |-> TRUE, cause |-> "attempt to subtract with overflow", value |-> 0]
        ELSE IF ~(window.v > MIN_ALPHA_SEARCH_PRECISION)
        THEN [panic |-> FALSE, cause |-> "none", value |-> max]
        ELSE IF sum.overflow /\ checks
        THEN [panic |-> TRUE, cause |-> "attempt to add with overflow", value |-> 0]
        ELSE IF RatioBelow(test_ratio, ratio10)
        THEN minimum_alpha_search(fg, bg, ratio10, checks, test_alpha, max, n + 1)
        ELSE minimum_alpha_search(fg, bg, ratio10, checks, min, test_alpha, n + 1)

calculate_minimum_alpha(fg, bg, ratio10, checks) ==
    IF Color_alpha(bg) # 255
    THEN [panic |-> TRUE, cause |-> "background not opaque", value |-> 0]
    ELSE IF RatioBelow(calculate_contrast(set_alpha_component(fg, 255), bg), ratio10)
    THEN [panic |-> FALSE, cause |-> "none", value |-> -1]
    ELSE minimum_alpha_search(fg, bg, ratio10, checks, 0, 255, 0)

\* ------------------------------------------------------------------------
\* Swatch: get_hsl, get_title_text_color, get_body_text_color
\* ------------------------------------------------------------------------

MIN_CONTRAST_TITLE_TEXT == 30      \* 3.0, in tenths
MIN_CONTRAST_BODY_TEXT == 45       \* 4.5, in tenths

\* alpha as u8, for an i32 alpha
AsU8(x) == x % 256

\* ensure_text_colors_generated on the swatch s: the swatch afterwards, or
\* the panic of one of the four searches.
\* ensure_text_colors_generated without the test for two dark values: when
\* the light values are not both found, each text colour is chosen by itself.
ensure_text_colors_generated_no_dark_pair(s, checks) ==
    LET light_body == calculate_minimum_alpha(Color_WHITE, s.m_rgb, MIN_CONTRAST_BODY_TEXT, checks)
        light_title == calculate_minimum_alpha(Color_WHITE, s.m_rgb, MIN_CONTRAST_TITLE_TEXT, checks)
        dark_body == calculate_minimum_alpha(Color_BLACK, s.m_rgb, MIN_CONTRAST_BODY_TEXT, checks)
        dark_title == calculate_minimum_alpha(Color_BLACK, s.m_rgb, MIN_CONTRAST_TITLE_TEXT, checks)
    IN  IF s.m_generated_text_colors THEN [panic |-> FALSE, cause |-> "none", swatch |-> s]
        ELSE IF light_body.panic THEN [panic |-> TRUE, cause |-> light_body.cause, swatch |-> s]
        ELSE IF light_title.panic THEN [panic |-> TRUE, cause |-> light_title.cause, swatch |-> s]
        ELSE IF dark_body.panic THEN [panic |-> TRUE, cause |-> dark_body.cause, swatch |-> s]
        ELSE IF dark_title.panic THEN [panic |-> TRUE, cause |-> dark_title.cause, swatch |-> s]
        ELSE [panic |-> FALSE, cause |-> "none",
              swatch |-> [s EXCEPT
                  !.m_body_text_color =
                      IF light_body.value # -1
                      THEN set_alpha_component(Color_WHITE, AsU8(light_body.value))
                      ELSE set_alpha_component(Color_BLACK, AsU8(dark_body.value)),
                  !.m_title_text_color =
                      IF light_title.value # -1
                      THEN set_alpha_component(Color_WHITE, AsU8(light_title.value))
                      ELSE set_alpha_component(Color_BLACK, AsU8(dark_title.value)),
                  !.m_generated_text_colors = TRUE]]

ensure_text_colors_generated(s, checks) ==
    LET light_body == calculate_minimum_alpha(Color_WHITE, s.m_rgb, MIN_CONTRAST_BODY_TEXT, checks)
        light_title == calculate_minimum_alpha(Color_WHITE, s.m_rgb, MIN_CONTRAST_TITLE_TEXT, checks)
        dark_body == calculate_minimum_alpha(Color_BLACK, s.m_rgb, MIN_CONTRAST_BODY_TEXT, checks)
        dark_title == calculate_minimum_alpha(Color_BLACK, s.m_rgb, MIN_CONTRAST_TITLE_TEXT, checks)
    IN  IF s.m_generated_text_colors THEN [panic |-> FALSE, cause |-> "none", swatch |-> s]
        ELSE IF light_body.panic THEN [panic |-> TRUE, cause |-> light_body.cause, swatch |-> s]
        ELSE IF light_title.panic THEN [panic |-> TRUE, cause |-> light_title.cause, swatch |-> s]
        ELSE IF light_body.value # -1 /\ light_title.value # -1
        THEN [panic |-> FALSE, cause |-> "none",
              swatch |-> [s EXCEPT
                  !.m_body_text_color = set_alpha_component(Color_WHITE, AsU8(light_body.value)),
                  !.m_title_text_color = set_alpha_component(Color_WHITE, AsU8(light_title.value)),
                  !.m_generated_text_colors = TRUE]]
        ELSE IF dark_body.panic THEN [panic |-> TRUE, cause |-> dark_body.cause, swatch |-> s]
        ELSE IF dark_title.panic THEN [panic |-> TRUE, cause |-> dark_title.cause, swatch |-> s]
        ELSE IF dark_body.value # -1 /\ dark_title.value # -1
        THEN [panic |-> FALSE, cause |-> "none",
              swatch |-> [s EXCEPT
                  !.m_body_text_color = set_alpha_component(Color_BLACK, AsU8(dark_body.value)),
                  !.m_title_text_color = set_alpha_component(Color_BLACK, AsU8(dark_title.value)),
                  !.m_generated_text_colors = TRUE]]
        ELSE [panic |-> FALSE, cause |-> "none",
              swatch |-> [s EXCEPT
                  !.m_body_text_color =
                      IF light_body.value # -1
                      THEN set_alpha_component(Color_WHITE, AsU8(light_body.value))
                      ELSE set_alpha_component(Color_BLACK, AsU8(dark_body.value)),
                  !.m_title_text_color =
                      IF light_title.value # -1
                      THEN set_alpha_component(Color_WHITE, AsU8(light_title.value))
                      ELSE set_alpha_component(Color_BLACK, AsU8(dark_title.value)),
                  !.m_generated_text_colors = TRUE]]

\* The colours of the swatches the accessors are called on, all opaque.
SwatchColorSamples == OpaqueBgSamples \cup {NEAR_WHITE, Color_rgb(248, 248, 0), GREEN}

SwatchInit ==
    /\ s_pc = "ready"
    /\ swatch \in {Swatch_new(c, 1) : c \in SwatchColorSamples}
    /\ s_call = "none"
    /\ s_ret = <<>>
    /\ s_cause = "none"
    /\ s_calls = 0
    /\ s_first = [hsl |-> <<>>, title |-> <<>>, body |-> <<>>]
    /\ s_hsl_computations = 0
    /\ s_text_computations = 0
    /\ s_later_write = FALSE

\* What a call of the accessor named call leaves behind, the swatch after it
\* being after and its return value ret.
Accessed(call, after, ret) ==
    /\ s_pc' = "ready"
    /\ swatch' = after
    /\ s_call' = call
    /\ s_ret' = <<ret>>
    /\ s_calls' = s_calls + 1
    /\ s_first' = IF s_first[call] = <<>> THEN [s_first EXCEPT ![call] = <<ret>>]
                  ELSE s_first
    /\ UNCHANGED s_cause

TextAccessed == s_first.title # <<>> \/ s_first.body # <<>>

get_hsl ==
    /\ s_pc = "ready"
    /\ s_calls < MaxAccesses
    /\ LET after == Swatch_get_hsl(swatch)
       IN  /\ Accessed("hsl", after, after.m_hsl)
           /\ s_later_write' = (s_later_write \/ (s_first.hsl # <<>> /\ after # swatch))
    /\ s_hsl_computations' = s_hsl_computations + 1
    /\ UNCHANGED s_text_computations
    /\ UNCHANGED notSwatch

\* A text-colour accessor: ensure_text_colors_generated, then the field.
TextColorCall(call, field) ==
    /\ s_pc = "ready"
    /\ s_calls < MaxAccesses
    /\ LET e == ensure_text_colors_generated(swatch, overflow_checks)
       IN  /\ IF e.panic
              THEN /\ s_pc' = "panicked"
                   /\ s_cause' = e.cause
                   /\ s_call' = call
                   /\ s_calls' = s_calls + 1
                   /\ UNCHANGED <<swatch, s_ret, s_first, s_later_write>>
              ELSE /\ Accessed(call, e.swatch, e.swatch[field])
                   /\ s_later_write' = (s_later_write \/ (TextAccessed /\ e.swatch # swatch))
           /\ s_text_computations' =
                  IF swatch.m_generated_text_colors THEN s_text_computations
                  ELSE s_text_computations + 1
    /\ UNCHANGED s_hsl_computations
    /\ UNCHANGED notSwatch

get_title_text_color == TextColorCall("title", "m_title_text_color")

get_body_text_color == TextColorCall("body", "m_body_text_color")

SwatchNext == get_hsl \/ get_title_text_color \/ get_body_text_color

\* ------------------------------------------------------------------------
\* ColorCutQuantizer::new, in its four passes
\* ------------------------------------------------------------------------

PixelSamples == {RED, GREEN, BLUE, NEAR_WHITE, Color_BLACK}

FilterListSamples ==
    { <<>>, <<"DefaultFilter">>, <<"ClientFilter">>, <<"DefaultFilter", "ClientFilter">>,
      <<"BandFilter">> }

PixelLists == UNION {[1..n -> PixelSamples] : n \in 0..MaxPixels}

QuantInit ==
    /\ q_pc = "input"
    /\ pixels \in PixelLists
    /\ max_colors \in 1..MaxColorsBound
    /\ m_filters \in FilterListSamples
    /\ hist = EmptyHistogram
    /\ distinct_color_count = 0
    /\ colors = <<>>
    /\ m_colors = <<>>
    /\ m_histogram = <<>>
    /\ m_quantized_colors = <<>>
    /\ q_cause = "none"

\* The first loop: quantize every pixel and count it.
NewHistogram ==
    /\ q_pc = "input"
    /\ hist' = CountPixels(pixels, 1, EmptyHistogram)
    /\ q_pc' = "histogram"
    /\ UNCHANGED <<pixels, max_colors, m_filters, distinct_color_count, colors,
                   m_colors, m_histogram, m_quantized_colors, q_cause>>
    /\ UNCHANGED notQuant

\* The second loop: empty the entries of ignored colours, count the rest.
NewCountDistinct ==
    /\ q_pc = "histogram"
    /\ LET filtered == [c \in DOMAIN hist |->
                           IF hist[c] > 0 /\ should_ignore_color_1(m_filters, c)
                           THEN 0 ELSE hist[c]]
       IN  /\ hist' = filtered
           /\ distinct_color_count' = Cardinality({c \in DOMAIN filtered : filtered[c] > 0})
    /\ q_pc' = "counted"
    /\ UNCHANGED <<pixels, max_colors, m_filters, colors, m_colors, m_histogram,
                   m_quantized_colors, q_cause>>
    /\ UNCHANGED notQuant

\* The third loop: the array of the distinct colours.
NewCollectColors ==
    /\ q_pc = "counted"
    /\ LET collected == CollectFrom(Populated(hist), 1, 0,
                                    [i \in 1..distinct_color_count |-> 0])
       IN  IF collected.panic
           THEN /\ q_pc' = "panicked"
                /\ q_cause' = "index out of bounds"
                /\ UNCHANGED colors
           ELSE /\ q_pc' = "collected"
                /\ colors' = collected.colors
                /\ UNCHANGED q_cause
    /\ UNCHANGED <<pixels, max_colors, m_filters, hist, distinct_color_count,
                   m_colors, m_histogram, m_quantized_colors>>
    /\ UNCHANGED notQuant

\* quantize_pixels up to its first box, Vbox::new(0, m_colors.len() - 1):
\* with no colour in m_colors the length underflows or fit_box reads
\* m_colors[0].
quantize_pixels_first_box ==
    IF Len(m_colors) = 0
    THEN [panic |-> TRUE,
          causes |-> {"attempt to subtract with overflow", "index out of bounds"}]
    ELSE [panic |-> FALSE, causes |-> {}]

\* The end of new: the colours themselves when they are few enough, the
\* call of quantize_pixels otherwise.
NewResult ==
    /\ q_pc = "collected"
    /\ IF distinct_color_count <= max_colors
       THEN /\ m_quantized_colors' = SwatchesOf(colors, 1, hist)
            /\ q_pc' = "returned"
            /\ UNCHANGED q_cause
       ELSE /\ q_pc' = "quantize_pixels"
            /\ UNCHANGED <<m_quantized_colors, q_cause>>
    /\ UNCHANGED <<pixels, max_colors, m_filters, hist, distinct_color_count,
                   colors, m_colors, m_histogram>>
    /\ UNCHANGED notQuant

get_quantized_colors == m_quantized_colors

QuantNext == NewHistogram \/ NewCountDistinct \/ NewCollectColors \/ NewResult

\* ------------------------------------------------------------------------
\* Vbox (src/src/graphics/color_cut_quantizer.rs)
\*
\* The colour array is indexed from 0 in the source: element i of it is
\* a[i + 1] here.  The functions that index it return a panic when an index
\* is out of bounds.
\* ------------------------------------------------------------------------


SetMax(S) == CHOOSE x \in S : \A y \in S : y <= x
SetMin(S) == CHOOSE x \in S : \A y \in S : x <= y

RECURSIVE SumOver(_, _)
\* The sum of f over the indices in S.
SumOver(f, S) ==
    IF S = {} THEN 0
    ELSE LET i == CHOOSE x \in S : TRUE IN f[i] + SumOver(f, S \ {i})

\* fit_box: the box with its bounds and population recomputed from the
\* colours lower..upper of the array a, with the histogram h.
fit_box(vbox, a, h) ==
    LET indices == vbox.m_lower_index .. vbox.m_upper_index
        color(i) == a[i + 1]
        reds == {quantized_red(color(i)) : i \in indices}
        greens == {quantized_green(color(i)) : i \in indices}
        blues == {quantized_blue(color(i)) : i \in indices}
    IN  IF \E i \in indices : i < 0 \/ i >= Len(a)
        THEN [panic |-> TRUE, vbox |-> vbox]
        ELSE [panic |-> FALSE,
              vbox |-> [vbox EXCEPT
                  !.m_min_red = IF indices = {} THEN I32_MAX ELSE SetMin(reds),
                  !.m_max_red = IF indices = {} THEN I32_MIN ELSE SetMax(reds),
                  !.m_min_green = IF indices = {} THEN I32_MAX ELSE SetMin(greens),
                  !.m_max_green = IF indices = {} THEN I32_MIN ELSE SetMax(greens),
                  !.m_min_blue = IF indices = {} THEN I32_MAX ELSE SetMin(blues),
                  !.m_max_blue = IF indices = {} THEN I32_MIN ELSE SetMax(blues),
                  !.m_population =
                      SumOver([i \in indices |-> HistAt(h, color(i))], indices)]]

Vbox_default ==
    [ m_lower_index |-> 0, m_upper_index |-> 0, m_population |-> 0,
      m_min_red |-> 0, m_max_red |-> 0,
      m_min_green |-> 0, m_max_green |-> 0,
      m_min_blue |-> 0, m_max_blue |-> 0 ]

Vbox_new(lower_index, upper_index, a, h) ==
    fit_box([Vbox_default EXCEPT !.m_lower_index = lower_index,
                                 !.m_upper_index = upper_index], a, h)

get_volume(vbox) ==
    (vbox.m_max_red - vbox.m_min_red + 1) * (vbox.m_max_green - vbox.m_min_green + 1)
        * (vbox.m_max_blue - vbox.m_min_blue + 1)

\* get_color_count with the two indices exchanged.
get_color_count_exchanged(vbox) == 1 + vbox.m_lower_index - vbox.m_upper_index

get_color_count(vbox) == 1 + vbox.m_upper_index - vbox.m_lower_index

can_split(vbox) == get_color_count(vbox) > 1

get_longest_color_dimension(vbox) ==
    LET red_length == vbox.m_max_red - vbox.m_min_red
        green_length == vbox.m_max_green - vbox.m_min_green
        blue_length == vbox.m_max_blue - vbox.m_min_blue
    IN  IF red_length >= green_length /\ red_length >= green_length THEN "Red"
        ELSE IF green_length >= red_length /\ green_length >= blue_length THEN "Green"
        ELSE "Blue"

\* The colours lower..upper of a repacked with the given dimension in the
\* most significant word.
modify_significant_octet(a, dimension, lower, upper) ==
    LET w == 2^QUANTIZE_WORD_WIDTH
        swapped(color) ==
            IF dimension = "Green"
            THEN quantized_green(color) * w * w + quantized_red(color) * w
                     + quantized_blue(color)
            ELSE quantized_blue(color) * w * w + quantized_green(color) * w
                     + quantized_red(color)
    IN  IF dimension = "Red" THEN a
        ELSE [i \in 1..Len(a) |->
                 IF lower <= i - 1 /\ i - 1 <= upper THEN swapped(a[i]) ELSE a[i]]

RECURSIVE SortedInsert(_, _)
\* The ascending sequence seq with x put in its place.
SortedInsert(x, seq) ==
    IF seq = <<>> THEN <<x>>
    ELSE IF x <= Head(seq) THEN <<x>> \o seq
    ELSE <<Head(seq)>> \o SortedInsert(x, Tail(seq))

RECURSIVE Sort(_)
\* slice.sort(): the elements of seq in ascending order.
Sort(seq) == IF seq = <<>> THEN <<>> ELSE SortedInsert(Head(seq), Sort(Tail(seq)))

\* a with its elements lower..upper sorted.
SortRange(a, lower, upper) ==
    LET sorted == Sort(SubSeq(a, lower + 1, upper + 1))
    IN  [i \in 1..Len(a) |->
            IF lower <= i - 1 /\ i - 1 <= upper THEN sorted[i - lower] ELSE a[i]]

RECURSIVE split_scan(_, _, _, _, _, _)
\* The loop of find_split_point from index i on, count being the population
\* passed so far.
split_scan(vbox, a, h, midpoint, i, count) ==
    IF i > vbox.m_upper_index THEN vbox.m_lower_index
    ELSE LET count2 == count + HistAt(h, a[i + 1])
         IN  IF count2 >= midpoint THEN Min(vbox.m_upper_index - 1, i)
             ELSE split_scan(vbox, a, h, midpoint, i + 1, count2)

\* find_split_point: the index to split at, and the colour array as the
\* sorting leaves it.
find_split_point(vbox, a, h) ==
    LET longest_dimension == get_longest_color_dimension(vbox)
        lower == vbox.m_lower_index
        upper == vbox.m_upper_index
        packed == modify_significant_octet(a, longest_dimension, lower, upper)
        sorted == SortRange(packed, lower, upper)
        reverted == modify_significant_octet(sorted, longest_dimension, lower, upper)
        midpoint == vbox.m_population \div 2
    IN  [ split_point |-> split_scan(vbox, reverted, h, midpoint, lower, 0),
          colors |-> reverted ]

\* split_box: the new box, this box as it is left, and the colour array; or
\* the panic of a box that can not be split or of an index out of bounds.
split_box(vbox, a, h) ==
    LET found == find_split_point(vbox, a, h)
        newbox == Vbox_new(found.split_point, vbox.m_upper_index + 1, found.colors, h)
        refit == fit_box([vbox EXCEPT !.m_upper_index = found.split_point],
                         found.colors, h)
    IN  IF ~can_split(vbox)
        THEN [panic |-> TRUE, cause |-> "Can not split a box with only 1 color",
              newbox |-> vbox, vbox |-> vbox, colors |-> a]
        ELSE IF newbox.panic \/ refit.panic
        THEN [panic |-> TRUE, cause |-> "index out of bounds",
              newbox |-> vbox, vbox |-> vbox, colors |-> found.colors]
        ELSE [panic |-> FALSE, cause |-> "none",
              newbox |-> newbox.vbox, vbox |-> refit.vbox, colors |-> found.colors]

\* f32::round(sum as f32 / total as f32) as i32, for sums that are not
\* negative: halves round up, and 0.0 / 0.0, a NaN, is cast to 0.
RoundedMean(sum, total) ==
    IF total = 0 THEN (IF sum = 0 THEN 0 ELSE I32_MAX)
    ELSE (2 * sum + total) \div (2 * total)

get_average_color(vbox, a, h) ==
    LET indices == vbox.m_lower_index .. vbox.m_upper_index
        pop(i) == HistAt(h, a[i + 1])
        total_population == SumOver([i \in indices |-> pop(i)], indices)
        red_sum == SumOver([i \in indices |-> pop(i) * quantized_red(a[i + 1])], indices)
        green_sum == SumOver([i \in indices |-> pop(i) * quantized_green(a[i + 1])], indices)
        blue_sum == SumOver([i \in indices |-> pop(i) * quantized_blue(a[i + 1])], indices)
    IN  Swatch_new(approximate_to_rgb888_1(RoundedMean(red_sum, total_population),
                                           RoundedMean(green_sum, total_population),
                                           RoundedMean(blue_sum, total_population)),
                   total_population)

\* color is the swatch after the get_hsl of the call.
should_ignore_color_2(filters, color) ==
    should_ignore_color_3(filters, color.m_rgb, color.m_hsl)

RECURSIVE generate_average_colors_unfiltered(_, _, _, _)
\* generate_average_colors without the second application of the filters.
generate_average_colors_unfiltered(vboxes, a, h, filters) ==
    IF vboxes = <<>> THEN <<>>
    ELSE <<Swatch_get_hsl(get_average_color(Head(vboxes), a, h))>>
             \o generate_average_colors_unfiltered(Tail(vboxes), a, h, filters)

RECURSIVE generate_average_colors(_, _, _, _)
\* The swatches of the boxes in the order given, those of an ignored
\* average colour left out.
generate_average_colors(vboxes, a, h, filters) ==
    IF vboxes = <<>> THEN <<>>
    ELSE LET average == Swatch_get_hsl(get_average_color(Head(vboxes), a, h))
             rest == generate_average_colors(Tail(vboxes), a, h, filters)
         IN  IF ~should_ignore_color_2(filters, average) THEN <<average>> \o rest ELSE rest

\* ------------------------------------------------------------------------
\* quantize_pixels: the first box, split_boxes, generate_average_colors
\*
\* new calls it when there are more distinct colours than max_colors.  The
\* receiver is taken as new leaves it, m_colors and m_histogram empty, and
\* also holding the colour array and the histogram that new has built, which
\* is what the boxes index.
\* ------------------------------------------------------------------------

\* The pixels whose quantized colours fill the colour array.
BoxPixelSamples ==
    { Color_rgb(255, 255, 255), Color_rgb(240, 248, 0), Color_rgb(248, 240, 0),
      Color_rgb(120, 0, 0), Color_rgb(136, 0, 0), Color_rgb(0, 120, 0) }

BoxColorSamples == {quantize_from_rgb888(pixel) : pixel \in BoxPixelSamples}

\* The colour arrays: distinct colours in ascending order.
BoxColorArrays ==
    {Ascending(S) : S \in {T \in SUBSET BoxColorSamples :
                               Cardinality(T) >= 2 /\ Cardinality(T) <= MaxBoxColors}}

QuantizePixelsInit ==
    /\ q_pc = "quantize_pixels"
    /\ pixels = <<>>
    /\ m_filters \in FilterListSamples
    /\ colors \in {a \in BoxColorArrays :
                      \A i \in 1..Len(a) : ~should_ignore_color_1(m_filters, a[i])}
    /\ hist \in [{colors[i] : i \in 1..Len(colors)} -> 1..MaxPopulation]
    /\ distinct_color_count = Len(colors)
    /\ max_colors \in {n \in 1..MaxColorsBound : distinct_color_count > n}
    /\ \E stored \in BOOLEAN :
           /\ m_colors = IF stored THEN colors ELSE <<>>
           /\ m_histogram = IF stored THEN hist ELSE EmptyHistogram
    /\ m_quantized_colors = <<>>
    /\ q_cause = "none"
    /\ queue = <<>>
    /\ split_log = <<>>

\* quantize_pixels up to the call of split_boxes.
quantize_pixels ==
    /\ q_pc = "quantize_pixels"
    /\ IF quantize_pixels_first_box.panic
       THEN /\ q_pc' = "panicked"
            /\ q_cause' \in quantize_pixels_first_box.causes
            /\ UNCHANGED queue
       ELSE LET first == Vbox_new(0, Len(m_colors) - 1, m_colors, m_histogram)
            IN  IF first.panic
                THEN /\ q_pc' = "panicked"
                     /\ q_cause' = "index out of bounds"
                     /\ UNCHANGED queue
                ELSE /\ queue' = <<first.vbox>>
                     /\ q_pc' = "split_boxes"
                     /\ UNCHANGED q_cause
    /\ UNCHANGED <<pixels, max_colors, m_filters, hist, distinct_color_count, colors,
                   m_colors, m_histogram, m_quantized_colors, split_log>>
    /\ UNCHANGED notBoxes

\* Vbox as Ord: cmp compares the volumes.
Vbox_cmp_population(self, other) ==
    IF self.m_population < other.m_population THEN "Less"
    ELSE IF self.m_population > other.m_population THEN "Greater"
    ELSE "Equal"

Vbox_cmp(self, other) ==
    IF get_volume(self) < get_volume(other) THEN "Less"
    ELSE IF get_volume(self) > get_volume(other) THEN "Greater"
    ELSE "Equal"

\* BinaryHeap::pop takes a greatest element of the heap: the positions of
\* the elements that none exceeds.
BinaryHeap_greatest(heap) ==
    {k \in 1..Len(heap) : \A j \in 1..Len(heap) : Vbox_cmp(heap[j], heap[k]) # "Greater"}

\* seq without its k-th element
Without(seq, k) == SubSeq(seq, 1, k - 1) \o SubSeq(seq, k + 1, Len(seq))

\* One iteration of the loop of split_boxes: the box of the greatest volume
\* is popped and split, and the two boxes are pushed.
split_boxes ==
    /\ q_pc = "split_boxes"
    /\ Len(queue) < max_colors
    /\ queue # <<>>
    /\ \E k \in BinaryHeap_greatest(queue) :
        /\ LET vbox == queue[k]
               rest == Without(queue, k)
               split == split_box(vbox, m_colors, m_histogram)
           IN  /\ split_log' = Append(split_log, [vbox |-> vbox, rest |-> rest])
               /\ m_colors' = split.colors
               /\ IF split.panic
                  THEN /\ q_pc' = "panicked"
                       /\ q_cause' = split.cause
                       /\ queue' = rest
                  ELSE /\ queue' = rest \o <<split.newbox, split.vbox>>
                       /\ UNCHANGED <<q_pc, q_cause>>
    /\ UNCHANGED <<pixels, max_colors, m_filters, hist, distinct_color_count, colors,
                   m_histogram, m_quantized_colors>>
    /\ UNCHANGED notBoxes

\* The orders in which n boxes can be iterated over.
Orders(n) == {f \in [1..n -> 1..n] : \A i, j \in 1..n : f[i] = f[j] => i = j}

\* The end of quantize_pixels: split_boxes has returned, the average colours
\* are generated in the order the heap yields its boxes, and new stores them.
quantize_pixels_return ==
    /\ q_pc = "split_boxes"
    /\ ~(Len(queue) < max_colors) \/ queue = <<>>
    /\ \E order \in Orders(Len(queue)) :
           m_quantized_colors' =
               generate_average_colors([i \in 1..Len(queue) |-> queue[order[i]]],
                                       m_colors, m_histogram, m_filters)
    /\ q_pc' = "returned"
    /\ UNCHANGED <<pixels, max_colors, m_filters, hist, distinct_color_count, colors,
                   m_colors, m_histogram, q_cause, queue, split_log>>
    /\ UNCHANGED notBoxes

BoxesNext == quantize_pixels \/ split_boxes \/ quantize_pixels_return

\* ------------------------------------------------------------------------
\* The priority queue of quantize_pixels: a BinaryHeap<Vbox> under push and
\* pop, the boxes made by Vbox::new over the colour array
\* ------------------------------------------------------------------------

\* BinaryHeap::push.  The order in which a heap stores its elements shows
\* in no result of pop, so the boxes are kept in the order of their index
\* ranges.
BinaryHeap_push(heap, x) ==
    LET before == {k \in 1..Len(heap) :
                      \/ heap[k].m_lower_index < x.m_lower_index
                      \/ /\ heap[k].m_lower_index = x.m_lower_index
                         /\ heap[k].m_upper_index <= x.m_upper_index}
        n == Cardinality(before)
    IN  SubSeq(heap, 1, n) \o <<x>> \o SubSeq(heap, n + 1, Len(heap))

\* The colour arrays of MaxBoxColors colours out of four.
HeapColorArrays ==
    {Ascending(S) : S \in {T \in SUBSET {quantize_from_rgb888(pixel) : pixel \in
                               { Color_rgb(255, 255, 255), Color_rgb(240, 248, 0),
                                 Color_rgb(120, 0, 0), Color_rgb(0, 120, 0) }} :
                               Cardinality(T) = MaxBoxColors}}

HeapInit ==
    /\ q_pc = "heap"
    /\ pixels = <<>>
    /\ m_filters = <<>>
    /\ colors \in HeapColorArrays
    /\ hist \in [{colors[i] : i \in 1..Len(colors)} -> {1, MaxPopulation}]
    /\ distinct_color_count = Len(colors)
    /\ max_colors = MaxHeapSize
    /\ m_colors = colors
    /\ m_histogram = hist
    /\ m_quantized_colors = <<>>
    /\ q_cause = "none"
    /\ queue = <<>>
    /\ split_log = <<>>

\* pq.push(Vbox::new(lower, upper, self)) for a range of the colour array.
pq_push ==
    /\ q_pc = "heap"
    /\ Len(queue) < max_colors
    /\ \E lower \in 0..(Len(m_colors) - 1) :
       \E upper \in lower..(Len(m_colors) - 1) :
           queue' = BinaryHeap_push(queue, Vbox_new(lower, upper, m_colors, m_histogram).vbox)
    /\ UNCHANGED <<split_log, quantVars>>
    /\ UNCHANGED notBoxes

\* queue.pop() on a heap that is not empty; the box and the boxes left
\* behind are written down.
pq_pop ==
    /\ q_pc = "heap"
    /\ queue # <<>>
    /\ \E k \in BinaryHeap_greatest(queue) :
           /\ split_log' = <<[vbox |-> queue[k], rest |-> Without(queue, k)]>>
           /\ queue' = Without(queue, k)
    /\ UNCHANGED quantVars
    /\ UNCHANGED notBoxes

HeapNext == pq_push \/ pq_pop

\* ------------------------------------------------------------------------
\* Target (src/naqsh-rs/src/graphics/target.rs); the floats in hundredths
\* ------------------------------------------------------------------------

Target_default ==
    [ m_saturation_targets |-> <<0, 50, 100>>,
      m_lightness_targets |-> <<0, 50, 100>>,
      m_weights |-> <<24, 52, 24>>,
      m_is_exclusive |-> TRUE ]

set_default_dark_lightness_values(t) ==
    [t EXCEPT !.m_lightness_targets[2] = 26, !.m_lightness_targets[3] = 45]

set_default_normal_lightness_values(t) ==
    [t EXCEPT !.m_lightness_targets = <<30, 50, 70>>]

set_default_light_lightness_values(t) ==
    [t EXCEPT !.m_lightness_targets[1] = 55, !.m_lightness_targets[2] = 74]

set_default_vibrant_saturation_values(t) ==
    [t EXCEPT !.m_saturation_targets[1] = 35, !.m_saturation_targets[2] = 100]

set_default_muted_saturation_values(t) ==
    [t EXCEPT !.m_saturation_targets[2] = 30, !.m_saturation_targets[3] = 40]

Target_new(kind) ==
    CASE kind = "LightVibrant" ->
            set_default_vibrant_saturation_values(
                set_default_light_lightness_values(Target_default))
      [] kind = "Vibrant" ->
            set_default_vibrant_saturation_values(
                set_default_normal_lightness_values(Target_default))
      [] kind = "DarkVibrant" ->
            set_default_vibrant_saturation_values(
                set_default_dark_lightness_values(Target_default))
      [] kind = "LightMuted" ->
            set_default_muted_saturation_values(
                set_default_light_lightness_values(Target_default))
      [] kind = "Muted" ->
            set_default_muted_saturation_values(
                set_default_normal_lightness_values(Target_default))
      [] kind = "DarkMuted" ->
            set_default_muted_saturation_values(
                set_default_dark_lightness_values(Target_default))

TargetBuilder_set_exclusive(t, exclusive) == [t EXCEPT !.m_is_exclusive = exclusive]

\* The targets PaletteBuilder::new adds, in its order.
DefaultTargets ==
    << Target_new("LightVibrant"), Target_new("Vibrant"), Target_new("DarkVibrant"),
       Target_new("LightMuted"), Target_new("Muted"), Target_new("DarkMuted") >>

\* ------------------------------------------------------------------------
\* TargetBuilder: new or default, the weight setters, set_exclusive, build
\* ------------------------------------------------------------------------

TargetKinds ==
    {"LightVibrant", "Vibrant", "DarkVibrant", "LightMuted", "Muted", "DarkMuted"}

\* The weights given to the setters, in hundredths: negative, zero, a
\* default weight, and two larger ones.
WeightSamples == {-50, 0, 24, 50, 100}

INDEX_WEIGHT_SAT == 1
INDEX_WEIGHT_LUMA == 2
INDEX_WEIGHT_POP == 3

\* TargetBuilder::new(kind) or TargetBuilder::default().
TargetBuilderInit ==
    /\ tb_pc = "building"
    /\ m_target \in {Target_new(kind) : kind \in TargetKinds} \cup {Target_default}
    /\ tb_calls = 0
    /\ tb_built = Target_default

\* A setter that stores weight at index of m_weights.
SetWeight(index, weight) ==
    /\ tb_pc = "building"
    /\ tb_calls < MaxSetterCalls
    /\ m_target' = [m_target EXCEPT !.m_weights[index] = weight]
    /\ tb_calls' = tb_calls + 1
    /\ UNCHANGED <<tb_pc, tb_built>>
    /\ UNCHANGED notTarget

set_saturation_weight == \E weight \in WeightSamples : SetWeight(INDEX_WEIGHT_SAT, weight)

set_lightness_weight == \E weight \in WeightSamples : SetWeight(INDEX_WEIGHT_LUMA, weight)

set_population_weight == \E weight \in WeightSamples : SetWeight(INDEX_WEIGHT_POP, weight)

set_exclusive ==
    /\ tb_pc = "building"
    /\ tb_calls < MaxSetterCalls
    /\ \E exclusive \in BOOLEAN :
           m_target' = TargetBuilder_set_exclusive(m_target, exclusive)
    /\ tb_calls' = tb_calls + 1
    /\ UNCHANGED <<tb_pc, tb_built>>
    /\ UNCHANGED notTarget

\* build returns m_target as it stands.
build ==
    /\ tb_pc = "building"
    /\ tb_built' = m_target
    /\ tb_pc' = "built"
    /\ UNCHANGED <<m_target, tb_calls>>
    /\ UNCHANGED notTarget

TargetNext ==
    \/ set_saturation_weight
    \/ set_lightness_weight
    \/ set_population_weight
    \/ set_exclusive
    \/ build

\* ------------------------------------------------------------------------
\* SparseBooleanArray (src/src/util/sparse_boolean_array.rs)
\* ------------------------------------------------------------------------

SparseBooleanArray_default == [m_keys |-> <<>>, m_values |-> <<>>, m_size |-> 0]

RECURSIVE bisect(_, _, _, _)
\* slice::binary_search on the positions lo .. hi - 1 (counted from 0) of a
\* sorted vector: Ok(i) as [found |-> TRUE, i], Err(i) as [found |-> FALSE, i].
bisect(keys, key, lo, hi) ==
    IF lo >= hi THEN [found |-> FALSE, i |-> lo]
    ELSE LET mid == lo + ((hi - lo) \div 2)
         IN  IF keys[mid + 1] = key THEN [found |-> TRUE, i |-> mid]
             ELSE IF keys[mid + 1] < key THEN bisect(keys, key, mid + 1, hi)
             ELSE bisect(keys, key, lo, mid)

binary_search(keys, key) == bisect(keys, key, 0, Len(keys))

\* Vec::insert(i, x) and Vec::remove(i), i counted from 0.
Vec_insert(v, i, x) == SubSeq(v, 1, i) \o <<x>> \o SubSeq(v, i + 1, Len(v))
Vec_remove(v, i) == SubSeq(v, 1, i) \o SubSeq(v, i + 2, Len(v))

SparseBooleanArray_get(self, key, value_if_key_not_found) ==
    LET i == binary_search(self.m_keys, key)
    IN  IF i.found THEN self.m_values[i.i + 1] ELSE value_if_key_not_found

SparseBooleanArray_get_or_false(self, key) == SparseBooleanArray_get(self, key, FALSE)

SparseBooleanArray_delete(self, key) ==
    LET i == binary_search(self.m_keys, key)
    IN  IF i.found
        THEN [m_keys |-> Vec_remove(self.m_keys, i.i),
              m_values |-> Vec_remove(self.m_values, i.i),
              m_size |-> self.m_size - 1]
        ELSE self

SparseBooleanArray_put(self, key, value) ==
    LET i == binary_search(self.m_keys, key)
    IN  IF i.found
        THEN [self EXCEPT !.m_values[i.i + 1] = value]
        ELSE [m_keys |-> Vec_insert(self.m_keys, i.i, key),
              m_values |-> Vec_insert(self.m_values, i.i, value),
              m_size |-> self.m_size + 1]

SparseBooleanArray_clear(self) == [m_keys |-> <<>>, m_values |-> <<>>, m_size |-> 0]

\* append that pushes whatever the key is.
SparseBooleanArray_append_push(self, key, value) ==
    [m_keys |-> Append(self.m_keys, key),
     m_values |-> Append(self.m_values, value),
     m_size |-> self.m_size + 1]

SparseBooleanArray_append(self, key, value) ==
    IF self.m_size # 0 /\ key <= self.m_keys[self.m_size]
    THEN SparseBooleanArray_put(self, key, value)
    ELSE [m_keys |-> Append(self.m_keys, key),
          m_values |-> Append(self.m_values, value),
          m_size |-> self.m_size + 1]

\* ------------------------------------------------------------------------
\* Calls on one SparseBooleanArray
\* ------------------------------------------------------------------------

SparseKeySamples == {-1, 0, 5}

SparseInit ==
    /\ sba = SparseBooleanArray_default
    /\ sba_log = <<>>

\* What a call leaves behind: the array after it and the call in the log.
SparseCalled(after, call) ==
    /\ Len(sba_log) < MaxSparseCalls
    /\ sba' = after
    /\ sba_log' = Append(sba_log, call)
    /\ UNCHANGED notSparse

put ==
    \E key \in SparseKeySamples, value \in BOOLEAN :
        SparseCalled(SparseBooleanArray_put(sba, key, value),
                     [op |-> "put", key |-> key, value |-> value])

append ==
    \E key \in SparseKeySamples, value \in BOOLEAN :
        SparseCalled(SparseBooleanArray_append(sba, key, value),
                     [op |-> "append", key |-> key, value |-> value])

delete ==
    \E key \in SparseKeySamples :
        SparseCalled(SparseBooleanArray_delete(sba, key),
                     [op |-> "delete", key |-> key, value |-> FALSE])

clear ==
    SparseCalled(SparseBooleanArray_clear(sba), [op |-> "clear", key |-> 0, value |-> FALSE])

SparseNext == put \/ append \/ delete \/ clear

\* ------------------------------------------------------------------------
\* Palette (src/src/graphics/palette.rs)
\* ------------------------------------------------------------------------

RECURSIVE find_dominant_from_ge(_, _, _, _)
\* The scan of find_dominant_swatch with >= for >: a later swatch of the
\* same population replaces an earlier one.
find_dominant_from_ge(swatches, i, max_pop, max_swatch) ==
    IF i > Len(swatches) THEN max_swatch
    ELSE IF swatches[i].m_population >= max_pop
    THEN find_dominant_from_ge(swatches, i + 1, swatches[i].m_population, swatches[i])
    ELSE find_dominant_from_ge(swatches, i + 1, max_pop, max_swatch)

RECURSIVE find_dominant_from(_, _, _, _)
\* The loop of find_dominant_swatch from swatch i on (i counts from 1).
find_dominant_from(swatches, i, max_pop, max_swatch) ==
    IF i > Len(swatches) THEN max_swatch
    ELSE IF swatches[i].m_population > max_pop
    THEN find_dominant_from(swatches, i + 1, swatches[i].m_population, swatches[i])
    ELSE find_dominant_from(swatches, i + 1, max_pop, max_swatch)

find_dominant_swatch(swatches) ==
    find_dominant_from(swatches, 1, I32_MIN, Swatch_default)

SwatchSamples ==
    {Swatch_new(c, n) : c \in {RED, GREEN, NEAR_WHITE}, n \in 1..MaxPopulation}

SwatchLists == UNION {[1..n -> SwatchSamples] : n \in 0..MaxSwatches}

TargetListSamples ==
    { <<>>, DefaultTargets,
      <<TargetBuilder_set_exclusive(Target_new("Vibrant"), FALSE), Target_new("Muted")>> }

PaletteInit ==
    /\ p_pc = "input"
    /\ p_swatches \in SwatchLists
    /\ p_targets \in TargetListSamples
    /\ m_swatches = <<>>
    /\ m_targets = <<>>
    /\ m_selected_swatches = {}
    /\ m_used_colors = SparseBooleanArray_default
    /\ m_dominant_swatch = Swatch_default

Palette_new ==
    /\ p_pc = "input"
    /\ m_dominant_swatch' = find_dominant_swatch(p_swatches)
    /\ m_swatches' = p_swatches
    /\ m_targets' = p_targets
    /\ m_selected_swatches' = {}
    /\ m_used_colors' = SparseBooleanArray_default
    /\ p_pc' = "built"
    /\ UNCHANGED <<p_swatches, p_targets>>
    /\ UNCHANGED notPalette

PaletteNext == Palette_new

\* ------------------------------------------------------------------------
\* Packing: Color::argb followed by the component accessors
\* ------------------------------------------------------------------------

ColorInit ==
    /\ c_pc = "input"
    /\ c_args \in ByteSamples \X ByteSamples \X ByteSamples \X ByteSamples
    /\ c_packed = 0
    /\ c_color = <<0, 0, 0, 0>>
    /\ c_colorint = <<0, 0, 0, 0>>

Pack ==
    /\ c_pc = "input"
    /\ c_packed' = Color_argb(c_args[1], c_args[2], c_args[3], c_args[4])
    /\ c_pc' = "packed"
    /\ UNCHANGED <<c_args, c_color, c_colorint>>
    /\ UNCHANGED notColor

Unpack ==
    /\ c_pc = "packed"
    /\ c_color' = <<Color_alpha(c_packed), Color_red(c_packed),
                    Color_green(c_packed), Color_blue(c_packed)>>
    /\ c_colorint' = <<ColorInt_alpha(c_packed), ColorInt_red(c_packed),
                       ColorInt_green(c_packed), ColorInt_blue(c_packed)>>
    /\ c_pc' = "unpacked"
    /\ UNCHANGED <<c_args, c_packed>>
    /\ UNCHANGED notColor

ColorNext == Pack \/ Unpack

\* ------------------------------------------------------------------------
\* Specifications: each runs one component and leaves the others at rest
\* ------------------------------------------------------------------------

ColorIdle ==
    /\ c_pc = "off"
    /\ c_args = <<0, 0, 0, 0>>
    /\ c_packed = 0
    /\ c_color = <<0, 0, 0, 0>>
    /\ c_colorint = <<0, 0, 0, 0>>

\* No call of ColorUtils is in progress; the build is left open.
AlphaAtRest ==
    /\ foreground = 0
    /\ background = 0
    /\ a_pc = "off"
    /\ min_contrast_ratio = 10
    /\ min_alpha = 0
    /\ max_alpha = 255
    /\ num_iterations = 0
    /\ a_ret = 0
    /\ a_cause = "none"
    /\ a_returns = {}
    /\ k_out = [status |-> "none", hi |-> 0, lo |-> 1]

AlphaIdle == overflow_checks = FALSE /\ AlphaAtRest

QuantIdle ==
    /\ q_pc = "off"
    /\ pixels = <<>>
    /\ max_colors = 1
    /\ m_filters = <<>>
    /\ hist = EmptyHistogram
    /\ distinct_color_count = 0
    /\ colors = <<>>
    /\ m_colors = <<>>
    /\ m_histogram = <<>>
    /\ m_quantized_colors = <<>>
    /\ q_cause = "none"

PaletteIdle ==
    /\ p_pc = "off"
    /\ p_swatches = <<>>
    /\ p_targets = <<>>
    /\ m_swatches = <<>>
    /\ m_targets = <<>>
    /\ m_selected_swatches = {}
    /\ m_used_colors = SparseBooleanArray_default
    /\ m_dominant_swatch = Swatch_default

SwatchIdle ==
    /\ s_pc = "off"
    /\ swatch = Swatch_default
    /\ s_call = "none"
    /\ s_ret = <<>>
    /\ s_cause = "none"
    /\ s_calls = 0
    /\ s_first = [hsl |-> <<>>, title |-> <<>>, body |-> <<>>]
    /\ s_hsl_computations = 0
    /\ s_text_computations = 0
    /\ s_later_write = FALSE

BoxesIdle == queue = <<>> /\ split_log = <<>>

SparseIdle == sba = SparseBooleanArray_default /\ sba_log = <<>>

CallIdle ==
    /\ f_pc = "off"
    /\ f_call = <<>>
    /\ f_ret = <<>>
    /\ f_cause = "none"

TargetIdle ==
    /\ tb_pc = "off"
    /\ m_target = Target_default
    /\ tb_calls = 0
    /\ tb_built = Target_default

InitPalette == PaletteInit /\ ColorIdle /\ AlphaIdle /\ QuantIdle /\ SwatchIdle /\ TargetIdle /\ BoxesIdle /\ CallIdle
        /\ SparseIdle

SpecPalette == InitPalette /\ [][PaletteNext]_vars

InitQuant == QuantInit /\ ColorIdle /\ AlphaIdle /\ PaletteIdle /\ SwatchIdle /\ TargetIdle /\ BoxesIdle /\ CallIdle
        /\ SparseIdle

SpecQuant == InitQuant /\ [][QuantNext]_vars

\* A caller that gives the swatches of a finished quantizer to Palette::new.
ExtractInit ==
    /\ QuantInit
    /\ p_pc = "waiting"
    /\ p_swatches = <<>>
    /\ p_targets = DefaultTargets
    /\ m_swatches = <<>>
    /\ m_targets = <<>>
    /\ m_selected_swatches = {}
    /\ m_used_colors = SparseBooleanArray_default
    /\ m_dominant_swatch = Swatch_default

PassQuantizedColors ==
    /\ q_pc = "returned"
    /\ p_pc = "waiting"
    /\ p_swatches' = get_quantized_colors
    /\ p_pc' = "input"
    /\ UNCHANGED <<p_targets, m_swatches, m_targets, m_selected_swatches,
                   m_used_colors, m_dominant_swatch>>
    /\ UNCHANGED notPalette

ExtractNext == QuantNext \/ PassQuantizedColors \/ Palette_new

InitExtract == ExtractInit /\ ColorIdle /\ AlphaIdle /\ SwatchIdle /\ TargetIdle /\ BoxesIdle /\ CallIdle
        /\ SparseIdle

SpecExtract == InitExtract /\ [][ExtractNext]_vars

\* ------------------------------------------------------------------------
\* One call of DefaultFilter::is_allowed
\* ------------------------------------------------------------------------

\* Hues in degrees, saturations and lightnesses in hundredths, on and next
\* to the limits the filter compares with.
FilterHueSamples == {0, 9, 10, 20, 37, 38, 200}
FilterSaturationSamples == {0, 50, 82, 83, 100}
FilterLightnessSamples == {0, 5, 6, 50, 94, 95, 96, 100}

FilterHslSamples ==
    { << <<h, 1>>, <<s, 100>>, <<l, 100>> >> :
        h \in FilterHueSamples, s \in FilterSaturationSamples, l \in FilterLightnessSamples }

FilterCallInit ==
    /\ f_pc = "input"
    /\ f_call \in [fn : {"DefaultFilter::is_allowed"},
                   rgb : {Color_WHITE},
                   hsl : FilterHslSamples]
    /\ f_ret = <<>>
    /\ f_cause = "none"

DefaultFilterCall ==
    /\ f_pc = "input"
    /\ f_call.fn = "DefaultFilter::is_allowed"
    /\ f_ret' = DefaultFilter_is_allowed(f_call.rgb, f_call.hsl)
    /\ f_pc' = "returned"
    /\ UNCHANGED <<f_call, f_cause>>
    /\ UNCHANGED notCall

InitFilter ==
    FilterCallInit /\ ColorIdle /\ AlphaIdle /\ QuantIdle /\ PaletteIdle /\ SwatchIdle
        /\ TargetIdle /\ BoxesIdle
        /\ SparseIdle

SpecFilter == InitFilter /\ [][DefaultFilterCall]_vars

\* ------------------------------------------------------------------------
\* ColorInt operators (src/naqsh-rs/src/graphics/color_int.rs)
\*
\* An operator returns [panic, cause, value].  The values are i32 and no
\* intermediate result leaves the 32 bits: sums and products are taken on
\* 16-bit and 8-bit parts.
\* ------------------------------------------------------------------------

Pow2_15 == 2^15

\* Bit i of the i32 x, bit 31 being the sign.
Bit(x, i) == IF i = 31 THEN (IF x < 0 THEN 1 ELSE 0) ELSE (x \div 2^i) % 2

\* The i32 of the bits b[0] .. b[31].
FromBits(b) ==
    LET low == SumOver([i \in 0..30 |-> b[i] * 2^i], 0..30)
    IN  IF b[31] = 1 THEN low + I32_MIN ELSE low

\* The i32 whose upper half is hi and whose lower half is lo, both taken
\* modulo 2^16 after the carry of lo has gone into hi.
FromHalves(hi, lo) ==
    LET h == hi + (lo \div Pow2_16)
    IN  (((h + Pow2_15) % Pow2_16) - Pow2_15) * Pow2_16 + (lo % Pow2_16)

\* The product of two 16-bit values as <<upper half, lower half>>.
MulHalves(x, y) ==
    LET x1 == x \div Pow2_8
        x0 == x % Pow2_8
        y1 == y \div Pow2_8
        y0 == y % Pow2_8
        mid == x1 * y0 + x0 * y1
        low == x0 * y0 + (mid % Pow2_8) * Pow2_8
    IN  << x1 * y1 + (mid \div Pow2_8) + (low \div Pow2_16), low % Pow2_16 >>

Value(v) == [panic |-> FALSE, cause |-> "none", value |-> v]

Abort(cause) == [panic |-> TRUE, cause |-> cause, value |-> 0]

wrapping_add(a, b) ==
    FromHalves((a \div Pow2_16) + (b \div Pow2_16), (a % Pow2_16) + (b % Pow2_16))

wrapping_sub(a, b) ==
    FromHalves((a \div Pow2_16) - (b \div Pow2_16), (a % Pow2_16) - (b % Pow2_16))

wrapping_mul(a, b) ==
    LET ah == (a \div Pow2_16) % Pow2_16
        al == a % Pow2_16
        bh == (b \div Pow2_16) % Pow2_16
        bl == b % Pow2_16
        low == MulHalves(al, bl)
    IN  FromHalves(low[1] + MulHalves(ah, bl)[2] + MulHalves(al, bh)[2], low[2])

\* a / b of Rust, rounded towards zero, for b # 0 and (a, b) # (MIN, -1).
TruncDiv(a, b) ==
    LET pos(x, y) == IF x < 0 /\ x % y # 0 THEN (x \div y) + 1 ELSE x \div y
    IN  IF b > 0 THEN pos(a, b)
        ELSE IF b = I32_MIN THEN (IF a = I32_MIN THEN 1 ELSE 0)
        ELSE -pos(a, -b)

ColorInt_add(self, rhs) == Value(wrapping_add(self, rhs))

ColorInt_sub(self, rhs) == Value(wrapping_sub(self, rhs))

ColorInt_mul(self, rhs) == Value(wrapping_mul(self, rhs))

ColorInt_div(self, rhs) ==
    IF rhs = 0 THEN Abort("attempt to divide by zero")
    ELSE IF self = I32_MIN /\ rhs = -1 THEN Value(I32_MIN)
    ELSE Value(TruncDiv(self, rhs))

ColorInt_rem(self, rhs) ==
    IF rhs = 0 THEN Abort("attempt to calculate the remainder with a divisor of zero")
    ELSE IF self = I32_MIN /\ rhs = -1 THEN Value(0)
    ELSE Value(self - rhs * TruncDiv(self, rhs))

ColorInt_bitor(self, rhs) ==
    Value(FromBits([i \in 0..31 |-> IF Bit(self, i) = 1 \/ Bit(rhs, i) = 1 THEN 1 ELSE 0]))

ColorInt_bitand(self, rhs) ==
    Value(FromBits([i \in 0..31 |-> IF Bit(self, i) = 1 /\ Bit(rhs, i) = 1 THEN 1 ELSE 0]))

\* Wrapping << and >> take the shift modulo the 32 bits.
ColorInt_shl(self, rhs) ==
    LET k == rhs % 32
    IN  Value(FromBits([i \in 0..31 |-> IF i >= k THEN Bit(self, i - k) ELSE 0]))

ColorInt_shr(self, rhs) ==
    LET k == rhs % 32
    IN  Value(FromBits([i \in 0..31 |-> IF i + k <= 31 THEN Bit(self, i + k) ELSE Bit(self, 31)]))

ArithmeticOperators == {"add", "sub", "mul", "div", "rem", "bitor", "bitand"}
ShiftOperators == {"shl", "shr"}

\* The impl of the operator for ColorInt and for i32 operands and the two
\* assigning impls, which all go through the first.
OperandForms == {"ColorInt", "i32", "assign", "assign_i32"}
ShiftForms == {"usize", "assign"}

ColorInt_apply(fn, self, rhs) ==
    CASE fn = "add" -> ColorInt_add(self, rhs)
      [] fn = "sub" -> ColorInt_sub(self, rhs)
      [] fn = "mul" -> ColorInt_mul(self, rhs)
      [] fn = "div" -> ColorInt_div(self, rhs)
      [] fn = "rem" -> ColorInt_rem(self, rhs)
      [] fn = "bitor" -> ColorInt_bitor(self, rhs)
      [] fn = "bitand" -> ColorInt_bitand(self, rhs)
      [] fn = "shl" -> ColorInt_shl(self, rhs)
      [] fn = "shr" -> ColorInt_shr(self, rhs)

I32Samples == {I32_MIN, -16777216, -1, 0, 1, 255, 65536, 16711935, I32_MAX}

ShiftSamples == {0, 1, 8, 31, 32, 33}

ColorIntCallInit ==
    /\ f_pc = "input"
    /\ f_call \in [fn : ArithmeticOperators, form : OperandForms,
                   self : I32Samples, rhs : I32Samples]
                  \cup [fn : ShiftOperators, form : ShiftForms,
                        self : I32Samples, rhs : ShiftSamples]
    /\ f_ret = <<>>
    /\ f_cause = "none"

\* One use of an operator: the value returned or, for an assigning form,
\* the receiver after it.
ColorIntCall ==
    /\ f_pc = "input"
    /\ f_call.fn \in ArithmeticOperators \cup ShiftOperators
    /\ LET result == ColorInt_apply(f_call.fn, f_call.self, f_call.rhs)
       IN  IF result.panic
           THEN /\ f_pc' = "panicked"
                /\ f_cause' = result.cause
                /\ UNCHANGED f_ret
           ELSE /\ f_pc' = "returned"
                /\ f_ret' = result.value
                /\ UNCHANGED f_cause
    /\ UNCHANGED f_call
    /\ UNCHANGED notCall

InitColorInt ==
    ColorIntCallInit /\ ColorIdle /\ AlphaIdle /\ QuantIdle /\ PaletteIdle /\ SwatchIdle
        /\ TargetIdle /\ BoxesIdle
        /\ SparseIdle

SpecColorInt == InitColorInt /\ [][ColorIntCall]_vars

\* ------------------------------------------------------------------------
\* One call of ColorUtils::rgb_to_hsl
\* ------------------------------------------------------------------------

\* Every grey, and the colours made of a few component values.
RgbSamples ==
    {<<x, x, x>> : x \in 0..255}
        \cup {<<r, g, b>> : r \in {0, 128, 255}, g \in {0, 64, 255}, b \in {0, 200, 255}}

RgbToHslInit ==
    /\ f_pc = "input"
    /\ f_call \in [fn : {"rgb_to_hsl"}, rgb : RgbSamples]
    /\ f_ret = <<>>
    /\ f_cause = "none"

RgbToHslCall ==
    /\ f_pc = "input"
    /\ f_call.fn = "rgb_to_hsl"
    /\ f_ret' = rgb_to_hsl(f_call.rgb[1], f_call.rgb[2], f_call.rgb[3])
    /\ f_pc' = "returned"
    /\ UNCHANGED <<f_call, f_cause>>
    /\ UNCHANGED notCall

InitHsl ==
    RgbToHslInit /\ ColorIdle /\ AlphaIdle /\ QuantIdle /\ PaletteIdle /\ SwatchIdle
        /\ TargetIdle /\ BoxesIdle
        /\ SparseIdle

SpecHsl == InitHsl /\ [][RgbToHslCall]_vars

\* ------------------------------------------------------------------------
\* One call of ColorUtils::calculate_contrast
\* ------------------------------------------------------------------------

\* The opaque colours made of a few component values.
OpaqueSamples == {Color_rgb(r, g, b) : r, g, b \in {0, 1, 128, 255}}

ContrastCallInit ==
    /\ f_pc = "input"
    /\ f_call \in [fn : {"calculate_contrast"},
                   foreground : OpaqueSamples \cup {WHITE_HALF},
                   background : OpaqueSamples \cup {Color_argb(254, 255, 255, 255)}]
    /\ f_ret = <<>>
    /\ f_cause = "none"

CalculateContrastCall ==
    /\ f_pc = "input"
    /\ f_call.fn = "calculate_contrast"
    /\ LET c == calculate_contrast(f_call.foreground, f_call.background)
       IN  IF c.panic
           THEN /\ f_pc' = "panicked"
                /\ f_cause' = "background not opaque"
                /\ UNCHANGED f_ret
           ELSE /\ f_pc' = "returned"
                /\ f_ret' = [hi |-> c.hi, lo |-> c.lo]
                /\ UNCHANGED f_cause
    /\ UNCHANGED f_call
    /\ UNCHANGED notCall

InitContrast ==
    ContrastCallInit /\ ColorIdle /\ AlphaIdle /\ QuantIdle /\ PaletteIdle /\ SwatchIdle
        /\ TargetIdle /\ BoxesIdle
        /\ SparseIdle

SpecContrast == InitContrast /\ [][CalculateContrastCall]_vars

\* ------------------------------------------------------------------------
\* Image::get_row, then Row::get_pixel on the row it returned
\* ------------------------------------------------------------------------

\* Option<T>: None is <<>>, Some(x) is <<x>>.
None == <<>>
Some(x) == <<x>>

\* <[u8]>::get_mut(start..end): the bytes at the positions start .. end - 1
\* (counted from 0), None when the range does not lie in the slice.
slice_get_mut(buf, start, end) ==
    IF start > end \/ end > Len(buf) THEN None
    ELSE Some(SubSeq(buf, start + 1, end))

\* Image::from((width, height, data)); the data are the bytes 1, 2, 3, ...
\* of the tests, so that every position holds another byte.
Image_from(width, height) ==
    [width |-> width, height |-> height, rows |-> <<>>,
     buf |-> [k \in 1..(width * height * 4) |-> k % 256]]

\* The row is a view of the bytes of the image, kept in self.rows; the call
\* returns the image after it and the row (None when out of the buffer).
Image_get_row(self, index) ==
    LET start == index * self.width * 4
        end == start + self.width * 4
        row == slice_get_mut(self.buf, start, end)
    IN  IF row = None THEN [image |-> self, row |-> None]
        ELSE LET length == self.width * 4
                 new_row == [length |-> length, pixels |-> <<>>, buf |-> row[1]]
             IN  [image |-> [self EXCEPT !.rows = Append(@, new_row)],
                  row |-> Some(new_row)]

Row_get_pixel(self, index) ==
    LET start == index * 4
        end == start + 4
        pixel == slice_get_mut(self.buf, start, end)
    IN  IF pixel = None THEN [row |-> self, pixel |-> None]
        ELSE [row |-> [self EXCEPT !.pixels = Append(@, pixel[1])],
              pixel |-> Some(pixel[1])]

ImageInit ==
    /\ f_pc = "input"
    /\ f_call \in [fn : {"get_row"},
                   image : {Image_from(w, h) : w \in 0..MaxImageSide, h \in 0..MaxImageSide},
                   row_index : 0..(MaxImageSide + 1),
                   pixel_index : 0..(MaxImageSide + 1)]
    /\ f_ret = <<>>
    /\ f_cause = "none"

get_row ==
    /\ f_pc = "input"
    /\ f_call.fn = "get_row"
    /\ LET got == Image_get_row(f_call.image, f_call.row_index)
       IN  f_ret' = [image |-> got.image, row |-> got.row, pixel |-> None]
    /\ f_pc' = "row"
    /\ UNCHANGED <<f_call, f_cause>>
    /\ UNCHANGED notCall

get_pixel ==
    /\ f_pc = "row"
    /\ f_call.fn = "get_row"
    /\ f_ret.row # None
    /\ LET got == Row_get_pixel(f_ret.row[1], f_call.pixel_index)
       IN  f_ret' = [f_ret EXCEPT !.row = Some(got.row), !.pixel = got.pixel]
    /\ f_pc' = "pixel"
    /\ UNCHANGED <<f_call, f_cause>>
    /\ UNCHANGED notCall

ImageNext == get_row \/ get_pixel

InitImage ==
    ImageInit /\ ColorIdle /\ AlphaIdle /\ QuantIdle /\ PaletteIdle /\ SwatchIdle
        /\ TargetIdle /\ BoxesIdle /\ SparseIdle

SpecImage == InitImage /\ [][ImageNext]_vars

InitHeap ==
    HeapInit /\ ColorIdle /\ AlphaIdle /\ PaletteIdle /\ SwatchIdle /\ TargetIdle
        /\ CallIdle /\ SparseIdle

SpecHeap == InitHeap /\ [][HeapNext]_vars

\* ------------------------------------------------------------------------
\* One call of Vbox::get_longest_color_dimension
\* ------------------------------------------------------------------------

\* The least and greatest quantized component values of a box.
ComponentBounds == {<<lo, hi>> \in {0, 1, 3} \X {0, 1, 3} : lo <= hi}

LongestDimensionInit ==
    /\ f_pc = "input"
    /\ f_call \in [fn : {"get_longest_color_dimension"},
                   red : ComponentBounds, green : ComponentBounds, blue : ComponentBounds]
    /\ f_ret = <<>>
    /\ f_cause = "none"

LongestDimensionCall ==
    /\ f_pc = "input"
    /\ f_call.fn = "get_longest_color_dimension"
    /\ f_ret' = get_longest_color_dimension(
                    [Vbox_default EXCEPT !.m_min_red = f_call.red[1],
                                         !.m_max_red = f_call.red[2],
                                         !.m_min_green = f_call.green[1],
                                         !.m_max_green = f_call.green[2],
                                         !.m_min_blue = f_call.blue[1],
                                         !.m_max_blue = f_call.blue[2]])
    /\ f_pc' = "returned"
    /\ UNCHANGED <<f_call, f_cause>>
    /\ UNCHANGED notCall

InitDimension ==
    LongestDimensionInit /\ ColorIdle /\ AlphaIdle /\ QuantIdle /\ PaletteIdle /\ SwatchIdle
        /\ TargetIdle /\ BoxesIdle /\ SparseIdle

SpecDimension == InitDimension /\ [][LongestDimensionCall]_vars

\* ------------------------------------------------------------------------
\* modify_word_width from one width to the other, and back on its result
\* ------------------------------------------------------------------------

WordWidthInit ==
    /\ f_pc = "input"
    /\ f_call \in [fn : {"modify_word_width"}, value : 0..(2^QUANTIZE_WORD_WIDTH - 1),
                   current_width : {QUANTIZE_WORD_WIDTH}, target_width : {8}]
               \cup [fn : {"modify_word_width"}, value : 0..255,
                     current_width : {8}, target_width : {QUANTIZE_WORD_WIDTH}]
    /\ f_ret = <<>>
    /\ f_cause = "none"

\* approximate_to_rgb888_1 and quantize_from_rgb888 on one component.
ModifyWordWidthCall ==
    /\ f_pc = "input"
    /\ f_call.fn = "modify_word_width"
    /\ f_ret' = <<modify_word_width(f_call.value, f_call.current_width, f_call.target_width)>>
    /\ f_pc' = "returned"
    /\ UNCHANGED <<f_call, f_cause>>
    /\ UNCHANGED notCall

\* The other of the two on the component it returned.
ModifyWordWidthBack ==
    /\ f_pc = "returned"
    /\ f_call.fn = "modify_word_width"
    /\ f_ret' = Append(f_ret, modify_word_width(f_ret[1], f_call.target_width,
                                                f_call.current_width))
    /\ f_pc' = "back"
    /\ UNCHANGED <<f_call, f_cause>>
    /\ UNCHANGED notCall

WordWidthNext == ModifyWordWidthCall \/ ModifyWordWidthBack

InitWordWidth ==
    WordWidthInit /\ ColorIdle /\ AlphaIdle /\ QuantIdle /\ PaletteIdle /\ SwatchIdle
        /\ TargetIdle /\ BoxesIdle /\ SparseIdle

SpecWordWidth == InitWordWidth /\ [][WordWidthNext]_vars

InitSparse ==
    SparseInit /\ ColorIdle /\ AlphaIdle /\ QuantIdle /\ PaletteIdle /\ SwatchIdle
        /\ TargetIdle /\ BoxesIdle /\ CallIdle

SpecSparse == InitSparse /\ [][SparseNext]_vars

InitColor == ColorInit /\ AlphaIdle /\ QuantIdle /\ PaletteIdle /\ SwatchIdle /\ TargetIdle /\ BoxesIdle /\ CallIdle
        /\ SparseIdle

SpecColor == InitColor /\ [][ColorNext]_vars

InitAlpha == AlphaInit /\ ColorIdle /\ QuantIdle /\ PaletteIdle /\ SwatchIdle /\ TargetIdle /\ BoxesIdle /\ CallIdle
        /\ SparseIdle

SpecAlpha == InitAlpha /\ [][AlphaNext]_vars

\* The accessors of a Swatch run in either build.
InitSwatch ==
    SwatchInit /\ overflow_checks \in BOOLEAN /\ AlphaAtRest
        /\ ColorIdle /\ QuantIdle /\ PaletteIdle /\ TargetIdle /\ BoxesIdle /\ CallIdle
        /\ SparseIdle

SpecSwatch == InitSwatch /\ [][SwatchNext]_vars

InitTarget ==
    TargetBuilderInit /\ ColorIdle /\ AlphaIdle /\ QuantIdle /\ PaletteIdle /\ SwatchIdle /\ BoxesIdle
        /\ CallIdle
        /\ SparseIdle

SpecTarget == InitTarget /\ [][TargetNext]_vars

InitBoxes ==
    QuantizePixelsInit /\ ColorIdle /\ AlphaIdle /\ PaletteIdle /\ SwatchIdle /\ TargetIdle
        /\ CallIdle
        /\ SparseIdle

SpecBoxes == InitBoxes /\ [][BoxesNext]_vars

\* ------------------------------------------------------------------------
\* Claims
\* ------------------------------------------------------------------------

\* C1: for all a, r, g, b in 0..255, the alpha, red, green and blue read
\* back from argb(a, r, g, b), with the accessors of Color and with those of
\* ColorInt, are exactly (a, r, g, b).
C1_RoundTripPacking ==
    c_pc = "unpacked" => (c_color = c_args /\ c_colorint = c_args)

NewEnded == q_pc \in {"returned", "panicked"}

\* The reduced colours of the pixels that every filter admits.
SurvivingColors ==
    {c \in {quantize_from_rgb888(pixels[i]) : i \in 1..Len(pixels)} :
        ~should_ignore_color_1(m_filters, c)}

\* The pixels whose reduced colour every filter admits.
AdmittedPixels ==
    {i \in 1..Len(pixels) : quantize_from_rgb888(pixels[i]) \in SurvivingColors}

RECURSIVE PopulationSum(_, _)
PopulationSum(swatches, i) ==
    IF i > Len(swatches) THEN 0
    ELSE swatches[i].m_population + PopulationSum(swatches, i + 1)

\* C2: for any pixels, filters and max_colors >= 1, ColorCutQuantizer::new
\* completes and get_quantized_colors holds at most max_colors swatches.
C2_QuantizerBounded ==
    NewEnded => (q_pc = "returned" /\ Len(get_quantized_colors) <= max_colors)

\* C3: the populations of the swatches the quantizer produces add up to the
\* number of input pixels whose reduced colour every filter admits.
C3_PopulationConserved ==
    NewEnded =>
        /\ q_pc = "returned"
        /\ PopulationSum(m_quantized_colors, 1) = Cardinality(AdmittedPixels)

\* C5: when at most max_colors distinct reduced colours survive the filters,
\* the quantizer returns one swatch per surviving colour, its population the
\* number of pixels of that colour.
C5_FewColorsReturnedDirectly ==
    (NewEnded /\ Cardinality(SurvivingColors) <= max_colors) =>
        /\ q_pc = "returned"
        /\ Len(m_quantized_colors) = Cardinality(SurvivingColors)
        /\ \A c \in SurvivingColors :
              \E i \in 1..Len(m_quantized_colors) :
                  /\ m_quantized_colors[i].m_rgb = approximate_to_rgb888_2(c)
                  /\ m_quantized_colors[i].m_population =
                        Cardinality({k \in 1..Len(pixels) :
                                        quantize_from_rgb888(pixels[k]) = c})

\* C6: the dominant swatch of a Palette is a swatch of the greatest
\* population in the swatch list, the first such swatch of the list.
C6_DominantIsFirstMaximum ==
    (p_pc = "built" /\ Len(m_swatches) > 0) =>
        \E i \in 1..Len(m_swatches) :
            /\ m_dominant_swatch = m_swatches[i]
            /\ \A j \in 1..Len(m_swatches) :
                  m_swatches[j].m_population <= m_swatches[i].m_population
            /\ \A j \in 1..(i - 1) :
                  m_swatches[j].m_population < m_swatches[i].m_population

\* C6 witness: a palette built from swatches of which two of different
\* colours tie for the greatest population, after a less populous one.
C6_Witness ==
    /\ p_pc = "built"
    /\ Len(m_swatches) = 3
    /\ m_swatches[1].m_population < m_swatches[2].m_population
    /\ m_swatches[2].m_population = m_swatches[3].m_population
    /\ m_swatches[2].m_rgb # m_swatches[3].m_rgb
    /\ m_dominant_swatch = m_swatches[2]

\* Whether `alpha` applied to the foreground of this run reaches `ratio10`
\* against the background of this run.
Passes(alpha, ratio10) ==
    ~RatioBelow(calculate_contrast(set_alpha_component(foreground, alpha), background),
                ratio10)

CallEnded == a_pc \in {"returned", "panicked"}

\* C7: with an opaque background calculate_minimum_alpha returns -1 exactly
\* when the fully opaque foreground has contrast below min_contrast_ratio,
\* and otherwise returns a value in 0..255.
C7_SentinelOrAlpha ==
    (CallEnded /\ Color_alpha(background) = 255) =>
        /\ a_pc = "returned"
        /\ (a_ret = -1) <=> ~Passes(255, min_contrast_ratio)
        /\ a_ret # -1 => a_ret \in 0..255

C10_OpaqueBackgroundRequired ==
    /\ k_out.status # "none" =>
          (k_out.status = "panicked" <=> Color_alpha(background) # 255)
    /\ Color_alpha(background) # 255 =>
          /\ a_pc \in {"idle", "panicked"}
          /\ a_pc = "panicked" => a_cause = "background not opaque"
          /\ a_returns = {}
    /\ Color_alpha(background) = 255 => a_cause # "background not opaque"

\* C10 witness: both calls have aborted on a background that is not opaque.
C10_Witness ==
    /\ Color_alpha(background) # 255
    /\ k_out.status = "panicked"
    /\ a_pc = "panicked"
    /\ a_cause = "background not opaque"

\* C11: for every Swatch, get_title_text_color returns a colour of contrast
\* at least 3.0 against the swatch's rgb, get_body_text_color one of contrast
\* at least 4.5, and neither call fails.
C11_TextColorsLegible ==
    /\ s_pc # "panicked"
    /\ (s_pc = "ready" /\ s_call = "title") =>
           ~RatioBelow(calculate_contrast(s_ret[1], swatch.m_rgb), MIN_CONTRAST_TITLE_TEXT)
    /\ (s_pc = "ready" /\ s_call = "body") =>
           ~RatioBelow(calculate_contrast(s_ret[1], swatch.m_rgb), MIN_CONTRAST_BODY_TEXT)

\* The sum of the weights of t that are greater than 0, in hundredths.
PositiveWeightSum(t) ==
    LET w(i) == IF t.m_weights[i] > 0 THEN t.m_weights[i] ELSE 0
    IN  w(INDEX_WEIGHT_SAT) + w(INDEX_WEIGHT_LUMA) + w(INDEX_WEIGHT_POP)

\* C12: every Target returned by TargetBuilder::build has normalized
\* weights: those greater than 0 sum to 1 (100 hundredths), and a weight
\* that was set to 0 or less is returned as it was set.
C12_BuiltWeightsNormalized ==
    tb_pc = "built" =>
        /\ PositiveWeightSum(tb_built) > 0 => PositiveWeightSum(tb_built) = 100
        /\ \A i \in 1..3 :
               m_target.m_weights[i] <= 0 => tb_built.m_weights[i] = m_target.m_weights[i]

DegenerateImage ==
    \A i \in 1..Len(pixels) :
        LET rgb == approximate_to_rgb888_2(quantize_from_rgb888(pixels[i]))
        IN  \E k \in 1..Len(m_filters) :
                ~Filter_is_allowed(m_filters[k], rgb, color_to_hsl(rgb))

\* C14: on a degenerate image (no pixel, or every pixel's reduced colour
\* rejected by a filter) ColorCutQuantizer::new does not fail and returns an
\* empty swatch list, and a Palette built from an empty swatch list has no
\* selected entry and the default dominant swatch, of population 0.
C14_DegenerateImage ==
    /\ DegenerateImage =>
           /\ q_pc # "panicked"
           /\ q_pc = "returned" => get_quantized_colors = <<>>
    /\ (p_pc = "built" /\ m_swatches = <<>>) =>
           /\ m_selected_swatches = {}
           /\ m_dominant_swatch = Swatch_default
           /\ m_dominant_swatch.m_population = 0

\* Every pixel of a non-empty image was rejected, the quantizer returned and
\* a Palette was built from its swatches.
C14_Witness ==
    /\ DegenerateImage
    /\ Len(pixels) > 0
    /\ q_pc = "returned"
    /\ p_pc = "built"
    /\ m_swatches = <<>>

\* Every filter of the quantizer allows the colour rgb.
AdmittedByFilters(rgb) ==
    \A k \in 1..Len(m_filters) : Filter_is_allowed(m_filters[k], rgb, color_to_hsl(rgb))

\* The boxes of the queue whose average colour every filter allows.
AdmittedBoxes ==
    {k \in 1..Len(queue) :
        AdmittedByFilters(get_average_color(queue[k], m_colors, m_histogram).m_rgb)}

C16_DefaultFilterRejects ==
    (f_pc = "returned" /\ f_call.fn = "DefaultFilter::is_allowed") =>
        LET h == f_call.hsl[1]
            sat == f_call.hsl[2]
            l == f_call.hsl[3]
        IN  ~f_ret <=>
                \/ RatLe(<<95, 100>>, l)
                \/ RatLe(l, <<5, 100>>)
                \/ RatLe(<<10, 1>>, h) /\ RatLe(h, <<37, 1>>) /\ RatLe(sat, <<82, 100>>)

\* C17: the operators of ColorInt never abort: +, -, *, /, %, |, &, << and
\* >>, in their ColorInt, i32 and assigning forms, return an i32 for all
\* operands, and the sum, the difference and the product are the exact ones
\* modulo a power of two (seen here on their low 15 bits).
C17_ArithmeticNeverPanics ==
    (f_pc # "input" /\ f_call.fn \in ArithmeticOperators \cup ShiftOperators) =>
        /\ f_pc = "returned"
        /\ f_ret \in I32_MIN..I32_MAX
        /\ LET a == f_call.self % Pow2_15
               b == f_call.rhs % Pow2_15
           IN  /\ f_call.fn = "add" => f_ret % Pow2_15 = (a + b) % Pow2_15
               /\ f_call.fn = "sub" => f_ret % Pow2_15 = (a - b) % Pow2_15
               /\ f_call.fn = "mul" => f_ret % Pow2_15 = (a * b) % Pow2_15

\* C18: the lazy cache of a Swatch is computed at most once: over any
\* sequence of get_hsl, get_title_text_color and get_body_text_color calls
\* the HSL and the text colours are computed on the first access only, and
\* every later call returns the value of the first one and changes no field
\* of the swatch.
C18_LazyCacheComputedOnce ==
    /\ s_hsl_computations <= 1
    /\ s_text_computations <= 1
    /\ (s_pc = "ready" /\ s_call # "none") => s_ret = s_first[s_call]
    /\ ~s_later_write

\* x = y for two floats given as fractions
RatEq(x, y) == x[1] * y[2] = y[1] * x[2]

\* C19: for every x in 0..255, rgb_to_hsl(x, x, x) gives the hue 0, the
\* saturation 0 and the lightness x / 255.
C19_MonochromaticHsl ==
    (f_pc = "returned" /\ f_call.fn = "rgb_to_hsl"
        /\ f_call.rgb[1] = f_call.rgb[2] /\ f_call.rgb[2] = f_call.rgb[3]) =>
        /\ RatEq(f_ret[1], <<0, 1>>)
        /\ RatEq(f_ret[2], <<0, 1>>)
        /\ RatEq(f_ret[3], <<f_call.rgb[1], 255>>)

\* rgb_to_hsl has returned for a mid grey.
C19_Witness ==
    /\ f_pc = "returned"
    /\ f_call.fn = "rgb_to_hsl"
    /\ f_call.rgb = <<128, 128, 128>>
    /\ RatEq(f_ret[3], <<128, 255>>)

\* C20: for opaque foreground and background colours calculate_contrast
\* returns a ratio of at least 1 and at most 21, and for white on black it
\* returns exactly 21.
C20_ContrastRange ==
    (f_call.fn = "calculate_contrast"
        /\ Color_alpha(f_call.foreground) = 255 /\ Color_alpha(f_call.background) = 255
        /\ f_pc # "input") =>
        /\ f_pc = "returned"
        /\ f_ret.lo <= f_ret.hi
        /\ f_ret.hi <= 21 * f_ret.lo
        /\ (f_call.foreground = Color_WHITE /\ f_call.background = Color_BLACK) =>
               f_ret.hi = 21 * f_ret.lo

\* calculate_contrast has returned for white on black.
C20_Witness ==
    /\ f_pc = "returned"
    /\ f_call.fn = "calculate_contrast"
    /\ f_call.foreground = Color_WHITE
    /\ f_call.background = Color_BLACK
    /\ f_ret.hi = 21 * f_ret.lo

RECURSIVE LatestMapping(_, _)
\* What the calls of log leave key mapped to: <<value>> of the latest put or
\* append of key with no delete of key and no clear after it, <<>> if none.
LatestMapping(log, key) ==
    IF log = <<>> THEN <<>>
    ELSE LET call == log[Len(log)]
         IN  IF call.op = "clear" THEN <<>>
             ELSE IF call.key = key
             THEN (IF call.op = "delete" THEN <<>> ELSE <<call.value>>)
             ELSE LatestMapping(SubSeq(log, 1, Len(log) - 1), key)

\* C21: SparseBooleanArray is a map from integers to booleans: after any
\* sequence of put, append, delete and clear, get(k, d) returns the value of
\* the latest put or append of k that no delete(k) and no clear has removed
\* since, and d when there is none; get_or_false returns false then.
C21_SparseArrayIsMap ==
    \A key \in SparseKeySamples :
        LET mapping == LatestMapping(sba_log, key)
        IN  /\ \A d \in BOOLEAN :
                   SparseBooleanArray_get(sba, key, d) =
                       IF mapping = <<>> THEN d ELSE mapping[1]
            /\ SparseBooleanArray_get_or_false(sba, key) =
                   IF mapping = <<>> THEN FALSE ELSE mapping[1]

\* A key is mapped to true after a smaller key was put and deleted again.
C21_Witness ==
    /\ Len(sba_log) = 3
    /\ sba_log[1].op \in {"put", "append"}
    /\ sba_log[2].op \in {"put", "append"}
    /\ sba_log[2].key < sba_log[1].key
    /\ sba_log[3] = [op |-> "delete", key |-> sba_log[2].key, value |-> FALSE]
    /\ sba.m_size = 1
    /\ SparseBooleanArray_get_or_false(sba, sba_log[1].key)

\* C22: Image::get_row(i) yields exactly the width * 4 bytes that start at
\* byte i * width * 4 when i < height and None when i >= height;
\* Row::get_pixel(j) yields the 4 bytes that start at byte j * 4 of the row
\* when j < width and None otherwise; neither changes the bytes of the image.
C22_RowsAndPixelsInBounds ==
    f_pc \in {"row", "pixel"} /\ f_call.fn = "get_row" =>
        LET image == f_call.image
            i == f_call.row_index
            j == f_call.pixel_index
            first == i * image.width * 4
        IN  /\ f_ret.image.buf = image.buf
            /\ IF i < image.height
               THEN /\ f_ret.row # None
                    /\ f_ret.row[1].buf = SubSeq(image.buf, first + 1, first + image.width * 4)
               ELSE f_ret.row = None
            /\ f_pc = "pixel" =>
                   IF j < image.width
                   THEN f_ret.pixel = Some(SubSeq(image.buf, first + j * 4 + 1, first + j * 4 + 4))
                   ELSE f_ret.pixel = None

C26_StandardHsl ==
    f_pc = "returned" /\ f_call.fn = "rgb_to_hsl" =>
        LET r == f_call.rgb[1]
            g == f_call.rgb[2]
            b == f_call.rgb[3]
            max == Max(r, Max(g, b))
            min == Min(r, Min(g, b))
            h == f_ret[1]
            sat == f_ret[2]
            l == f_ret[3]
        IN  /\ RatEq(l, <<max + min, 510>>)
            /\ RatEq(sat, IF max = min THEN <<0, 1>>
                          ELSE <<max - min, 255 - Abs(max + min - 255)>>)
            /\ RatLe(<<0, 1>>, h) /\ RatLt(h, <<360, 1>>)
            /\ RatLe(<<0, 1>>, sat) /\ RatLe(sat, <<1, 1>>)
            /\ RatLe(<<0, 1>>, l) /\ RatLe(l, <<1, 1>>)

\* A 5-bit component was widened to 8 bits, and perhaps narrowed again.
Widened ==
    /\ f_pc \in {"returned", "back"}
    /\ f_call.fn = "modify_word_width"
    /\ f_call.current_width = QUANTIZE_WORD_WIDTH
    /\ f_call.target_width = 8

\* C27 as stated: a 5-bit component v is widened to 8 bits by bit
\* replication, (v << 3) | (v >> 2), so that 0 gives 0 and 31 gives 255, and
\* narrowing the result to 5 bits gives v again.
C27_ExpandByReplication ==
    Widened =>
        /\ f_ret[1] = f_call.value * 8 + f_call.value \div 4
        /\ f_call.value = 0 => f_ret[1] = 0
        /\ f_call.value = 31 => f_ret[1] = 255
        /\ f_pc = "back" => f_ret[2] = f_call.value

\* C27, amended: a 5-bit component v is widened to 8 bits by a shift,
\* v << 3, the three low bits zero, so that 0 gives 0 and 31 gives 248, and
\* narrowing the result to 5 bits gives v again.
C27_ExpandByShift ==
    Widened =>
        /\ f_ret[1] = f_call.value * 8
        /\ f_call.value = 0 => f_ret[1] = 0
        /\ f_call.value = 31 => f_ret[1] = 248
        /\ f_pc = "back" => f_ret[2] = f_call.value

\* 31 was widened to 248 and narrowed to 31 again.
C27_Witness ==
    /\ Widened
    /\ f_pc = "back"
    /\ f_call.value = 31
    /\ f_ret = <<248, 31>>

\* C28: the binary search of calculate_minimum_alpha ends after at most 10
\* iterations of its loop, for every foreground, opaque background and
\* min_contrast_ratio, and when it is left either the window
\* max_alpha - min_alpha is at most 1 or the iteration limit is reached.
C28_SearchWithinTenIterations ==
    /\ num_iterations <= MIN_ALPHA_SEARCH_MAX_ITERATIONS
    /\ a_pc = "returned" /\ a_ret # -1 =>
           \/ max_alpha - min_alpha <= MIN_ALPHA_SEARCH_PRECISION
           \/ num_iterations >= MIN_ALPHA_SEARCH_MAX_ITERATIONS

\* C30: the midpoint of the binary search never overflows 8 bits: in every
\* iteration min_alpha + max_alpha is at most 255 in the u8 arithmetic used,
\* so that test_alpha is floor((min_alpha + max_alpha) / 2) and lies between
\* min_alpha and max_alpha.
C30_MidpointWithinU8 ==
    /\ a_cause # "attempt to add with overflow"
    /\ min_alpha <= max_alpha
    /\ a_pc = "loop" /\ num_iterations <= MIN_ALPHA_SEARCH_MAX_ITERATIONS
           /\ max_alpha - min_alpha > MIN_ALPHA_SEARCH_PRECISION =>
               /\ ~U8Add(min_alpha, max_alpha).overflow
               /\ min_alpha <= U8Add(min_alpha, max_alpha).v \div 2
               /\ U8Add(min_alpha, max_alpha).v \div 2 <= max_alpha

\* The opaque colour text has a contrast of at least ratio10 tenths on rgb:
\* an alpha for it can be solved.
Solvable(text, rgb, ratio10) ==
    ~RatioBelow(calculate_contrast(set_alpha_component(text, 255), rgb), ratio10)

\* The colour the stated order gives the text of a role (its ratio being
\* ratio10) on rgb: white when white is solvable for body and title, else
\* black when black is solvable for both, else white when solvable for the
\* role and black otherwise.
TextBase(rgb, ratio10) ==
    IF Solvable(Color_WHITE, rgb, MIN_CONTRAST_BODY_TEXT)
           /\ Solvable(Color_WHITE, rgb, MIN_CONTRAST_TITLE_TEXT)
    THEN Color_WHITE
    ELSE IF Solvable(Color_BLACK, rgb, MIN_CONTRAST_BODY_TEXT)
                /\ Solvable(Color_BLACK, rgb, MIN_CONTRAST_TITLE_TEXT)
    THEN Color_BLACK
    ELSE IF Solvable(Color_WHITE, rgb, ratio10) THEN Color_WHITE
    ELSE Color_BLACK

\* The text colour of a role is the one of the stated order, at the alpha
\* solved for it, which is not the sentinel.
TextColorAsStated(text_color, rgb, ratio10) ==
    LET base == TextBase(rgb, ratio10)
        solved == calculate_minimum_alpha(base, rgb, ratio10, overflow_checks)
    IN  /\ Solvable(base, rgb, ratio10)
        /\ ~solved.panic
        /\ solved.value \in 0..255
        /\ text_color = set_alpha_component(base, solved.value)

\* C29: the text colours are selected in the stated order: white for both
\* when white is solvable at both thresholds (4.5 body, 3.0 title), else
\* black for both when black is solvable at both, otherwise each role by
\* itself, white when white is solvable for it and black if not; the alpha
\* chosen is always a solved value in 0..255, never the sentinel -1.
C29_TextColorOrder ==
    s_pc = "ready" /\ s_call \in {"title", "body"} =>
        /\ TextColorAsStated(swatch.m_title_text_color, swatch.m_rgb, MIN_CONTRAST_TITLE_TEXT)
        /\ TextColorAsStated(swatch.m_body_text_color, swatch.m_rgb, MIN_CONTRAST_BODY_TEXT)
        /\ s_call = "title" => s_ret[1] = swatch.m_title_text_color
        /\ s_call = "body" => s_ret[1] = swatch.m_body_text_color

\* A swatch on which white is solvable for the title alone has got black
\* for both texts.
C29_Witness ==
    /\ s_pc = "ready"
    /\ s_call = "title"
    /\ Solvable(Color_WHITE, swatch.m_rgb, MIN_CONTRAST_TITLE_TEXT)
    /\ ~Solvable(Color_WHITE, swatch.m_rgb, MIN_CONTRAST_BODY_TEXT)
    /\ Color_red(s_ret[1]) = 0
    /\ Color_red(swatch.m_body_text_color) = 0

====
